---- MODULE Spec2Model ----
\* Verification model of the world/tilemap subsystem (src/src/game/world).
\* The Tilemap object is the state; every public method is one action.
EXTENDS Integers, Sequences, FiniteSets, TLC

\* ------------------------------------------------------------------ bounds
\* Size of the tilemap built by the constructor, in tiles.
MapWidth == 2
MapHeight == 1
\* Number of mutating calls (set_tile, set_tile_by_id, place_door, ...) in a run.
MaxOps == 2

\* ------------------------------------------------------- program constants
TILE_SIZE == 32

EMPTY == 0
GROUND_BASE == 1
GROUND_WORN == 2
WALL_BASIC == 3
WALL_REINFORCED == 4
STAIRS == 5
PIPES == 6
DOOR_STANDARD == 7
DOOR_REINFORCED == 8
DOOR_ELECTRONIC == 9
TERMINAL == 10
DECAL == 11
LASER_TRAP == 12
SPIKE_TRAP == 13
NEON_SIGN == 14

\* TileLayer: the enum values are the strings used as JSON keys.
SOLID == "solid"
DECOR == "decor"
HAZARD == "hazard"
TileLayer == {SOLID, DECOR, HAZARD}
LayerOrder == <<SOLID, DECOR, HAZARD>>

VARIABLES
  width, height,      \* Tilemap.width, Tilemap.height
  layers,             \* Tilemap.layers: layer -> list of rows -> list of Tile
  collision_rects,    \* Tilemap.collision_rects (cached list)
  hazard_rects,       \* Tilemap.hazard_rects (cached list of (rect, damage))
  dirty,              \* Tilemap._collision_cache_dirty
  door_types,         \* TilemapConfig.config['door_types']
  file,               \* the map file on disk
  op,                 \* the call made by the last step
  ret,                \* what that call returned (a list; <<>> stands for None)
  raised,             \* the exception that escaped from that call, or "none"
  nOps,               \* mutating calls made so far
  rebuilds,           \* full cache rebuilds since the last SOLID-layer write (or load)
  readSince,          \* cache reads since then (counted up to 2)
  saved,              \* the tilemap as it was when `file` was written by save_to_json
  input_grid,         \* the boolean grid handed to the AutotilingSystem
  autotile_grid,      \* generate_autotile_grid's output list while it is being built
  scan,               \* where that loop is: the visiting order and the cells done
  camera,             \* the Camera object: x, y, width, height, target_x, target_y
  gen,                \* the MapGenerator call in progress: its arguments and counters
  world,              \* the WorldManager: world_initialized and the call in progress
  editor,             \* the TilemapEditor: mode, layer, tile, brush and mouse state
  frame,              \* what the last render call read and drew, in order
  game                \* the GameEngine: current state and the PlayingState's objects

vars == <<width, height, layers, collision_rects, hazard_rects, dirty, door_types,
          file, op, ret, raised, nOps, rebuilds, readSince, saved,
          input_grid, autotile_grid, scan, camera, gen,
          world, editor, frame, game>>

\* ------------------------------------------------------------------- Tile
\* Tile.__init__: damage is always 0 after construction.
Tile(tile_id, sprite_row, sprite_col, solid, hazard) ==
  [tile_id |-> tile_id, sprite_row |-> sprite_row, sprite_col |-> sprite_col,
   solid |-> solid, hazard |-> hazard, damage |-> 0]

EmptyTile == Tile(0, 0, 0, FALSE, FALSE)

\* [[Tile() for _ in range(w)] for _ in range(h)]; range of a negative number is empty.
NewGrid(w, h) == [y \in 1..h |-> [x \in 1..w |-> EmptyTile]]

NewLayers(w, h) == [l \in TileLayer |-> NewGrid(w, h)]

\* Python list indexing: a negative index counts from the end, anything outside
\* -n..n-1 raises IndexError.
PyIndexOk(n, i) == -n <= i /\ i < n

PyPos(n, i) == (IF i < 0 THEN i + n ELSE i) + 1

\* layers[layer][y][x] can be evaluated
CellOk(ls, layer, x, y) ==
  /\ PyIndexOk(Len(ls[layer]), y)
  /\ PyIndexOk(Len(ls[layer][PyPos(Len(ls[layer]), y)]), x)

CellAt(ls, layer, x, y) ==
  LET r == PyPos(Len(ls[layer]), y)
  IN ls[layer][r][PyPos(Len(ls[layer][r]), x)]

CellPut(ls, layer, x, y, tile) ==
  LET r == PyPos(Len(ls[layer]), y)
      c == PyPos(Len(ls[layer][r]), x)
  IN [ls EXCEPT ![layer][r][c] = tile]

\* Mutant: the bounds test without its lower limits.
InBoundsNoLower(w, h, x, y) == x < w /\ y < h

\* The bounds test of set_tile and get_tile.
InBounds(w, h, x, y) == 0 <= x /\ x < w /\ 0 <= y /\ y < h

\* Mutant: every layer marks the cache dirty.
MarksDirtyAnyLayer(layer) == TRUE

\* The layers whose writes mark the cache dirty.
MarksDirty(layer) == layer = SOLID

\* Mutant: the two trap damages exchanged.
TileByIdSwapped(tile_id, sprite_row, sprite_col) ==
  LET t == Tile(tile_id, sprite_row, sprite_col, FALSE, FALSE)
  IN IF tile_id \in {GROUND_BASE, GROUND_WORN, WALL_BASIC, WALL_REINFORCED}
       THEN [t EXCEPT !.solid = TRUE]
     ELSE IF tile_id \in {LASER_TRAP, SPIKE_TRAP}
       THEN [t EXCEPT !.hazard = TRUE,
                      !.damage = IF tile_id = LASER_TRAP THEN 10 ELSE 15]
     ELSE t

\* set_tile_by_id: the tile built from an id.
TileById(tile_id, sprite_row, sprite_col) ==
  LET t == Tile(tile_id, sprite_row, sprite_col, FALSE, FALSE)
  IN IF tile_id \in {GROUND_BASE, GROUND_WORN, WALL_BASIC, WALL_REINFORCED}
       THEN [t EXCEPT !.solid = TRUE]
     ELSE IF tile_id \in {LASER_TRAP, SPIKE_TRAP}
       THEN [t EXCEPT !.hazard = TRUE,
                      !.damage = IF tile_id = SPIKE_TRAP THEN 10 ELSE 15]
     ELSE t

\* ---------------------------------------------------------------- rects
Rect(x, y, w, h) == [x |-> x, y |-> y, w |-> w, h |-> h]

TileRect(x, y) == Rect(x * TILE_SIZE, y * TILE_SIZE, TILE_SIZE, TILE_SIZE)

\* pygame.Rect.colliderect for rectangles of positive size: the interiors meet.
ColliderRect(a, b) ==
  /\ a.x < b.x + b.w /\ b.x < a.x + a.w
  /\ a.y < b.y + b.h /\ b.y < a.y + a.h

\* _update_collision_cache, the loop body for cell number k (row-major), applied
\* from cell k on. It stops at the first cell that cannot be read (IndexError).
RECURSIVE RebuildFrom(_, _, _, _, _, _)
RebuildFrom(ls, w, h, k, crs, hrs) ==
  IF w <= 0 \/ h <= 0 \/ k >= w * h
    THEN [collision_rects |-> crs, hazard_rects |-> hrs, raised |-> "none"]
  ELSE
    LET x == k % w
        y == k \div w
    IN IF ~CellOk(ls, SOLID, x, y)
         THEN [collision_rects |-> crs, hazard_rects |-> hrs, raised |-> "IndexError"]
       ELSE
         LET crs2 == IF CellAt(ls, SOLID, x, y).solid
                       THEN Append(crs, TileRect(x, y)) ELSE crs
         IN IF ~CellOk(ls, HAZARD, x, y)
              THEN [collision_rects |-> crs2, hazard_rects |-> hrs,
                    raised |-> "IndexError"]
            ELSE
              LET ht == CellAt(ls, HAZARD, x, y)
                  hrs2 == IF ht.hazard
                            THEN Append(hrs, <<TileRect(x, y), ht.damage>>) ELSE hrs
              IN RebuildFrom(ls, w, h, k + 1, crs2, hrs2)

\* The lists a rebuild from the grid produces.
Rebuild(ls, w, h) == RebuildFrom(ls, w, h, 0, <<>>, <<>>)

\* ------------------------------------------------------- the call record
Call(name, layer, x, y, w, h, id, door) ==
  [name |-> name, layer |-> layer, x |-> x, y |-> y, w |-> w, h |-> h,
   id |-> id, door |-> door]

NoCall == Call("construct", "", 0, 0, 0, 0, 0, "")

ReadNames == {"get_collision_rects", "get_hazard_rects", "check_collision",
              "check_hazard_collision"}

\* What a step leaves alone when it only reads or writes tiles and the cache.
KeepDisk == UNCHANGED <<door_types, file, saved>>

KeepSize == UNCHANGED <<width, height>>

KeepCache == UNCHANGED <<collision_rects, hazard_rects>>

Sat(n) == IF n < 2 THEN n + 1 ELSE n

\* ------------------------------------------------------------ Tilemap.set_tile
\* The state change of set_tile(layer, x, y, tile), shared by every caller.
\* A write the bounds test lets through on a cell the lists do not have
\* raises IndexError.
SetTileEffect(layer, x, y, tile) ==
  IF InBounds(width, height, x, y)
    THEN IF CellOk(layers, layer, x, y)
           THEN /\ layers' = CellPut(layers, layer, x, y, tile)
                /\ dirty' = (IF MarksDirty(layer) THEN TRUE ELSE dirty)
                /\ rebuilds' = (IF layer = SOLID THEN 0 ELSE rebuilds)
                /\ readSince' = (IF layer = SOLID THEN 0 ELSE readSince)
                /\ raised' = "none"
           ELSE /\ UNCHANGED <<layers, dirty, rebuilds, readSince>>
                /\ raised' = "IndexError"
    ELSE /\ UNCHANGED <<layers, dirty, rebuilds, readSince>>
         /\ raised' = "none"

SetTile(layer, x, y, tile) ==
  /\ nOps < MaxOps
  /\ nOps' = nOps + 1
  /\ SetTileEffect(layer, x, y, tile)
  /\ op' = Call("set_tile", layer, x, y, 0, 0, tile.tile_id, "")
  /\ ret' = <<>>
  /\ KeepSize /\ KeepCache /\ KeepDisk

\* Tilemap.get_tile
GetTile(layer, x, y) ==
  /\ op' = Call("get_tile", layer, x, y, 0, 0, 0, "")
  /\ IF InBounds(width, height, x, y)
       THEN IF CellOk(layers, layer, x, y)
              THEN ret' = <<CellAt(layers, layer, x, y)>> /\ raised' = "none"
              ELSE ret' = <<>> /\ raised' = "IndexError"
       ELSE ret' = <<>> /\ raised' = "none"
  /\ UNCHANGED <<layers, dirty, nOps, rebuilds, readSince>>
  /\ KeepSize /\ KeepCache /\ KeepDisk

\* Tilemap.set_tile_by_id
SetTileById(layer, x, y, tile_id, sprite_row, sprite_col) ==
  /\ nOps < MaxOps
  /\ nOps' = nOps + 1
  /\ SetTileEffect(layer, x, y, TileById(tile_id, sprite_row, sprite_col))
  /\ op' = Call("set_tile_by_id", layer, x, y, 0, 0, tile_id, "")
  /\ ret' = <<>>
  /\ KeepSize /\ KeepCache /\ KeepDisk

\* ------------------------------------------- Tilemap._update_collision_cache
\* The cache after _update_collision_cache: untouched when the flag is clear,
\* otherwise cleared and rebuilt, the flag cleared only when the loop completed.
UpdateCollisionCache ==
  IF ~dirty
    THEN /\ UNCHANGED <<collision_rects, hazard_rects, dirty, rebuilds>>
         /\ raised' = "none"
    ELSE LET r == Rebuild(layers, width, height)
         IN /\ collision_rects' = r.collision_rects
            /\ hazard_rects' = r.hazard_rects
            /\ raised' = r.raised
            /\ dirty' = (r.raised # "none")
            /\ rebuilds' = Sat(rebuilds)

ReadFrame ==
  /\ readSince' = Sat(readSince)
  /\ UNCHANGED <<layers, nOps>>
  /\ KeepSize /\ KeepDisk

\* Tilemap.get_collision_rects
GetCollisionRects ==
  /\ UpdateCollisionCache
  /\ op' = Call("get_collision_rects", "", 0, 0, 0, 0, 0, "")
  /\ ret' = (IF raised' = "none" THEN collision_rects' ELSE <<>>)
  /\ ReadFrame

\* Tilemap.get_hazard_rects
GetHazardRects ==
  /\ UpdateCollisionCache
  /\ op' = Call("get_hazard_rects", "", 0, 0, 0, 0, 0, "")
  /\ ret' = (IF raised' = "none" THEN hazard_rects' ELSE <<>>)
  /\ ReadFrame

\* any(rect.colliderect(tile_rect) for tile_rect in collision_rects)
AnyCollides(rect, crs) == \E i \in 1..Len(crs) : ColliderRect(rect, crs[i])

\* The loop of check_hazard_collision over the first n entries of the list.
RECURSIVE TotalDamage(_, _, _)
TotalDamage(rect, hrs, n) ==
  IF n = 0 THEN 0
  ELSE TotalDamage(rect, hrs, n - 1)
       + (IF ColliderRect(rect, hrs[n][1]) THEN hrs[n][2] ELSE 0)

\* Tilemap.check_collision
CheckCollision(rect) ==
  /\ UpdateCollisionCache
  /\ op' = Call("check_collision", "", rect.x, rect.y, rect.w, rect.h, 0, "")
  /\ ret' = (IF raised' = "none" THEN <<AnyCollides(rect, collision_rects')>> ELSE <<>>)
  /\ ReadFrame

\* Tilemap.check_hazard_collision
CheckHazardCollision(rect) ==
  /\ UpdateCollisionCache
  /\ op' = Call("check_hazard_collision", "", rect.x, rect.y, rect.w, rect.h, 0, "")
  /\ ret' = (IF raised' = "none"
               THEN <<TotalDamage(rect, hazard_rects', Len(hazard_rects'))>>
               ELSE <<>>)
  /\ ReadFrame

\* ------------------------------------------------------- Tilemap.place_door
\* Mutant: an unknown door type falls back to a default entry instead of None.
GetDoorTypeOrDefault(door_type) ==
  IF door_type \in DOMAIN door_types
    THEN <<door_types[door_type]>> ELSE <<[row |-> 0, col |-> 0]>>

\* TilemapConfig.get_door_type: config['door_types'].get(door_type); <<>> is None.
GetDoorType(door_type) ==
  IF door_type \in DOMAIN door_types THEN <<door_types[door_type]>> ELSE <<>>

\* door_id_map.get(door_type, TileType.DOOR_STANDARD)
DoorId(door_type) ==
  CASE door_type = "standard" -> DOOR_STANDARD
    [] door_type = "reinforced" -> DOOR_REINFORCED
    [] door_type = "electronic" -> DOOR_ELECTRONIC
    [] OTHER -> DOOR_STANDARD

PlaceDoor(x, y, door_type) ==
  LET door_config == GetDoorType(door_type)
  IN /\ nOps < MaxOps
     /\ nOps' = nOps + 1
     /\ op' = Call("place_door", SOLID, x, y, 0, 0, DoorId(door_type), door_type)
     /\ ret' = <<>>
     /\ IF door_config = <<>>
          THEN /\ UNCHANGED <<layers, dirty, rebuilds, readSince>>
               /\ raised' = "none"
          ELSE SetTileEffect(SOLID, x, y,
                 TileById(DoorId(door_type), door_config[1].row, door_config[1].col))
     /\ KeepSize /\ KeepCache /\ KeepDisk

\* ------------------------------------------------------------ autotiling
\* AutotileType
GROUND == 0
WALLS == 1

\* AutotilingSystem.BITMASK_TO_TILE, as (bitmask, tile index) pairs.
BITMASK_TO_TILE ==
  {<<0, 46>>,
   <<2, 0>>, <<8, 1>>, <<10, 2>>,
   <<16, 3>>, <<64, 4>>, <<80, 5>>,
   <<18, 6>>, <<24, 7>>, <<72, 8>>, <<96, 9>>,
   <<22, 10>>, <<31, 11>>, <<104, 12>>, <<248, 13>>,
   <<26, 14>>, <<88, 15>>, <<30, 16>>, <<120, 17>>,
   <<122, 18>>,
   <<66, 19>>, <<82, 20>>,
   <<90, 21>>, <<106, 22>>,
   <<127, 23>>, <<255, 24>>,
   <<1, 25>>, <<4, 26>>, <<32, 27>>, <<128, 28>>,
   <<3, 29>>, <<6, 30>>, <<12, 31>>, <<17, 32>>,
   <<33, 33>>, <<34, 34>>, <<36, 35>>, <<48, 36>>,
   <<65, 37>>, <<68, 38>>, <<129, 39>>, <<130, 40>>,
   <<132, 41>>, <<136, 42>>, <<144, 43>>, <<160, 44>>,
   <<192, 45>>}

\* Mutant: the bits of the W and E neighbours exchanged.
DirectionsMirrored ==
  <<<<-1, -1, 1>>, <<0, -1, 2>>, <<1, -1, 4>>,
    <<-1, 0, 16>>, <<1, 0, 8>>,
    <<-1, 1, 32>>, <<0, 1, 64>>, <<1, 1, 128>>>>

\* The eight neighbours in the order NW, N, NE, W, E, SW, S, SE, with their bits.
Directions ==
  <<<<-1, -1, 1>>, <<0, -1, 2>>, <<1, -1, 4>>,
    <<-1, 0, 8>>, <<1, 0, 16>>,
    <<-1, 1, 32>>, <<0, 1, 64>>, <<1, 1, 128>>>>

\* Mutant: a neighbour outside the grid counts as occupied.
RECURSIVE NeighbourBitsNoEdge(_, _, _, _)
NeighbourBitsNoEdge(grid, x, y, n) ==
  IF n = 0 THEN 0
  ELSE LET nx == x + Directions[n][1]
           ny == y + Directions[n][2]
       IN NeighbourBitsNoEdge(grid, x, y, n - 1)
          + (IF 0 <= ny /\ ny < Len(grid) /\ 0 <= nx /\ nx < Len(grid[ny + 1])
               THEN (IF grid[ny + 1][nx + 1] THEN Directions[n][3] ELSE 0)
               ELSE Directions[n][3])

\* calculate_bitmask, the loop over the first n directions. The bits are distinct,
\* so or-ing them in is adding them.
RECURSIVE NeighbourBits(_, _, _, _)
NeighbourBits(grid, x, y, n) ==
  IF n = 0 THEN 0
  ELSE LET nx == x + Directions[n][1]
           ny == y + Directions[n][2]
       IN NeighbourBits(grid, x, y, n - 1)
          + (IF 0 <= ny /\ ny < Len(grid) /\ 0 <= nx /\ nx < Len(grid[ny + 1])
                /\ grid[ny + 1][nx + 1]
               THEN Directions[n][3] ELSE 0)

\* AutotilingSystem.calculate_bitmask
calculate_bitmask(grid, x, y) ==
  IF grid = <<>> \/ y < 0 \/ y >= Len(grid) \/ x < 0 \/ x >= Len(grid[1]) THEN 0
  ELSE IF ~grid[y + 1][x + 1] THEN 0
  ELSE NeighbourBits(grid, x, y, Len(Directions))

\* Mutant: a bitmask without table entry resolves to 47.
get_autotile_index_past_end(grid, x, y) ==
  LET b == calculate_bitmask(grid, x, y)
  IN IF \E p \in BITMASK_TO_TILE : p[1] = b
       THEN (CHOOSE p \in BITMASK_TO_TILE : p[1] = b)[2]
       ELSE 47

\* AutotilingSystem.get_autotile_index: BITMASK_TO_TILE.get(bitmask, 0)
get_autotile_index(grid, x, y) ==
  LET b == calculate_bitmask(grid, x, y)
  IN IF \E p \in BITMASK_TO_TILE : p[1] = b
       THEN (CHOOSE p \in BITMASK_TO_TILE : p[1] = b)[2]
       ELSE 0

\* Mutant: an unoccupied cell gets index 0 instead of the sentinel.
generate_autotile_grid_no_sentinel(solid_grid) ==
  IF solid_grid = <<>> THEN <<>>
  ELSE [y \in 1..Len(solid_grid) |->
         [x \in 1..Len(solid_grid[1]) |->
            IF solid_grid[y][x] THEN get_autotile_index(solid_grid, x - 1, y - 1)
            ELSE 0]]

\* AutotilingSystem.generate_autotile_grid, for a rectangular grid.
generate_autotile_grid(solid_grid) ==
  IF solid_grid = <<>> THEN <<>>
  ELSE [y \in 1..Len(solid_grid) |->
         [x \in 1..Len(solid_grid[1]) |->
            IF solid_grid[y][x] THEN get_autotile_index(solid_grid, x - 1, y - 1)
            ELSE -1]]

\* Mutant: 47 tiles per atlas row.
get_tile_coords_one_row(tile_type, autotile_index) ==
  IF tile_type \notin {GROUND, WALLS} THEN <<0, 0>>
  ELSE <<(IF tile_type = GROUND THEN 9 ELSE 10) + (autotile_index \div 47),
         autotile_index % 47>>

\* AutotilePalette.get_tile_coords: 16 tiles per atlas row, base row 9 for
\* GROUND and 10 for WALLS, (0, 0) for a type without palette.
get_tile_coords(tile_type, autotile_index) ==
  IF tile_type \notin {GROUND, WALLS} THEN <<0, 0>>
  ELSE <<(IF tile_type = GROUND THEN 9 ELSE 10) + (autotile_index \div 16),
         autotile_index % 16>>

\* apply_autotiling, the body of the loop for cell number k - 1 (row-major) of
\* the autotile grid, applied to the outcome of the cells before it. The write
\* goes through set_tile (bounds test, dirty flag).
AutotileWriteCell(before, layer, tile_type, agrid, k, w) ==
  LET x == (k - 1) % w
      y == (k - 1) \div w
      rc == get_tile_coords(tile_type, agrid[y + 1][x + 1])
      tile_id == IF tile_type = GROUND THEN GROUND_BASE ELSE WALL_BASIC
  IN IF before.err # "none" \/ agrid[y + 1][x + 1] = -1
          \/ ~InBounds(width, height, x, y)
       THEN before
     ELSE IF ~CellOk(before.layers, layer, x, y)
       THEN [before EXCEPT !.err = "IndexError"]
     ELSE [layers |-> CellPut(before.layers, layer, x, y,
                              TileById(tile_id, rc[1], rc[2])),
           wrote |-> TRUE, err |-> "none"]

\* apply_autotiling: the writes of the loop to cells 0..k-1 of the autotile grid.
RECURSIVE AutotileWrites(_, _, _, _, _, _)
AutotileWrites(ls, layer, tile_type, agrid, k, w) ==
  IF k = 0 THEN [layers |-> ls, wrote |-> FALSE, err |-> "none"]
  ELSE AutotileWriteCell(AutotileWrites(ls, layer, tile_type, agrid, k - 1, w),
                         layer, tile_type, agrid, k, w)

\* Tilemap.apply_autotiling
ApplyAutotiling(layer, tile_type, solid_pattern) ==
  LET agrid == generate_autotile_grid(solid_pattern)
      w == IF agrid = <<>> THEN 0 ELSE Len(agrid[1])
      r == AutotileWrites(layers, layer, tile_type, agrid, Len(agrid) * w, w)
      marked == r.wrote /\ MarksDirty(layer)
  IN /\ nOps < MaxOps
     /\ nOps' = nOps + 1
     /\ op' = Call("apply_autotiling", layer, 0, 0, w, Len(agrid), tile_type, "")
     /\ ret' = <<>>
     /\ layers' = r.layers
     /\ raised' = r.err
     /\ dirty' = (IF marked THEN TRUE ELSE dirty)
     /\ rebuilds' = (IF r.wrote /\ layer = SOLID THEN 0 ELSE rebuilds)
     /\ readSince' = (IF r.wrote /\ layer = SOLID THEN 0 ELSE readSince)
     /\ KeepSize /\ KeepCache /\ KeepDisk

\* ------------------------------------------- save_to_json / load_from_json
\* The map file is [kind |-> "missing"], [kind |-> "garbage"] (not JSON) or
\* [kind |-> "json", data |-> d], d the parsed object: a record with the keys
\* the file has. d.layers lists the entries of the "layers" object in file order,
\* each [name |-> key, rows |-> list of rows of tile objects].

\* The per-tile object save_to_json writes.
TileData(tile) ==
  [id |-> tile.tile_id, sprite_row |-> tile.sprite_row, sprite_col |-> tile.sprite_col,
   solid |-> tile.solid, hazard |-> tile.hazard, damage |-> tile.damage]

\* save_to_json reads layer_data[y][x] for y in range(height), x in range(width).
SaveReadable(ls, w, h) ==
  \A l \in TileLayer : \A y \in 0..(h - 1), x \in 0..(w - 1) : CellOk(ls, l, x, y)

\* The object save_to_json dumps.
SaveData(ls, w, h) ==
  [width |-> w, height |-> h,
   layers |-> [i \in 1..Len(LayerOrder) |->
                 [name |-> LayerOrder[i],
                  rows |-> [y \in 1..h |-> [x \in 1..w |->
                              TileData(ls[LayerOrder[i]][y][x])]]]]]

\* Tilemap.save_to_json
SaveToJson ==
  /\ op' = Call("save_to_json", "", 0, 0, 0, 0, 0, "")
  /\ ret' = <<>>
  /\ IF SaveReadable(layers, width, height)
       THEN /\ file' = [kind |-> "json", data |-> SaveData(layers, width, height)]
            /\ saved' = <<[width |-> width, height |-> height, layers |-> layers]>>
            /\ raised' = "none"
       ELSE /\ UNCHANGED <<file, saved>>
            /\ raised' = "IndexError"
  /\ UNCHANGED <<layers, dirty, nOps, rebuilds, readSince, door_types>>
  /\ KeepSize /\ KeepCache

\* tile_data.get(key, default)
GetOr(d, key, default) == IF key \in DOMAIN d THEN d[key] ELSE default

\* Mutant: the tile of a tile object, without its damage.
TileFromDataNoDamage(td) ==
  Tile(td.id, td.sprite_row, td.sprite_col,
       GetOr(td, "solid", FALSE), GetOr(td, "hazard", FALSE))

\* The Tile load_from_json builds from a tile object that has its required keys.
TileFromData(td) ==
  [Tile(td.id, td.sprite_row, td.sprite_col,
        GetOr(td, "solid", FALSE), GetOr(td, "hazard", FALSE))
     EXCEPT !.damage = GetOr(td, "damage", 0)]

\* load_from_json, the loop over the cells of one layer from cell k on (row-major):
\* the grid so far and the exception that stopped the loop.
RECURSIVE LoadCells(_, _, _, _, _)
LoadCells(grid, rows, w, h, k) ==
  IF w <= 0 \/ h <= 0 \/ k >= w * h THEN [grid |-> grid, err |-> "none"]
  ELSE
    LET x == k % w
        y == k \div w
    IN IF ~PyIndexOk(Len(rows), y) THEN [grid |-> grid, err |-> "IndexError"]
       ELSE IF ~PyIndexOk(Len(rows[y + 1]), x) THEN [grid |-> grid, err |-> "IndexError"]
       ELSE
         LET td == rows[y + 1][x + 1]
         IN IF ~({"id", "sprite_row", "sprite_col"} \subseteq DOMAIN td)
              THEN [grid |-> grid, err |-> "KeyError"]
            ELSE LoadCells([grid EXCEPT ![y + 1][x + 1] = TileFromData(td)],
                           rows, w, h, k + 1)

\* load_from_json, the loop over data['layers'].items() from entry i on.
RECURSIVE LoadLayers(_, _, _, _, _)
LoadLayers(ls, entries, i, w, h) ==
  IF i > Len(entries) THEN [layers |-> ls, err |-> "none"]
  ELSE IF entries[i].name \notin TileLayer THEN [layers |-> ls, err |-> "ValueError"]
  ELSE
    LET r == LoadCells(ls[entries[i].name], entries[i].rows, w, h, 0)
        ls2 == [ls EXCEPT ![entries[i].name] = r.grid]
    IN IF r.err # "none" THEN [layers |-> ls2, err |-> r.err]
       ELSE LoadLayers(ls2, entries, i + 1, w, h)

\* Mutant: the layers re-created with rows and columns exchanged.
FreshLayersTransposed(w, h) == NewLayers(h, w)

\* "Ricrea i layer": the layers load_from_json re-creates for the file's size.
FreshLayers(w, h) == NewLayers(w, h)

\* The tilemap after load_from_json(f): width, height, layers, the dirty flag and
\* the exception at which the body stopped ("none": it ran to its end).
LoadResult(f, w, h, ls, d) ==
  LET keep == [width |-> w, height |-> h, layers |-> ls, dirty |-> d]
  IN IF f.kind = "missing" THEN keep @@ [err |-> "FileNotFoundError"]
     ELSE IF f.kind = "garbage" THEN keep @@ [err |-> "JSONDecodeError"]
     ELSE IF "width" \notin DOMAIN f.data THEN keep @@ [err |-> "KeyError"]
     ELSE IF "height" \notin DOMAIN f.data
       THEN [keep EXCEPT !.width = f.data.width] @@ [err |-> "KeyError"]
     ELSE
       LET w2 == f.data.width
           h2 == f.data.height
           blank == [width |-> w2, height |-> h2, layers |-> FreshLayers(w2, h2),
                     dirty |-> d]
       IN IF "layers" \notin DOMAIN f.data THEN blank @@ [err |-> "KeyError"]
          ELSE LET r == LoadLayers(blank.layers, f.data.layers, 1, w2, h2)
               IN [width |-> w2, height |-> h2, layers |-> r.layers,
                   dirty |-> (IF r.err = "none" THEN TRUE ELSE d), err |-> r.err]

\* The exceptions the except clause of load_from_json catches.
Caught == {"FileNotFoundError", "JSONDecodeError", "KeyError"}

\* Tilemap.load_from_json
LoadFromJson ==
  LET r == LoadResult(file, width, height, layers, dirty)
  IN /\ op' = Call("load_from_json", "", 0, 0, 0, 0, 0, "")
     /\ ret' = <<>>
     /\ width' = r.width
     /\ height' = r.height
     /\ layers' = r.layers
     /\ dirty' = r.dirty
     /\ raised' = (IF r.err \in Caught THEN "none" ELSE r.err)
     /\ rebuilds' = (IF r.err = "none" THEN 0 ELSE rebuilds)
     /\ readSince' = (IF r.err = "none" THEN 0 ELSE readSince)
     /\ UNCHANGED <<nOps, file, saved, door_types>>
     /\ KeepCache

\* ------------------------------------------------------------------ inputs
\* The cells the write calls address: the first and the last cell of the last row.
CellXs == {0, MapWidth - 1}
CellYs == {MapHeight - 1}

\* Coordinates at and across the edges of the grid, with one cell inside.
EdgeXs == {-1, 0, MapWidth}
EdgeYs == {-1, 0, MapHeight}

\* A tile handed to set_tile that no id table produces.
CustomTile == [tile_id |-> DECAL, sprite_row |-> 6, sprite_col |-> 0,
               solid |-> TRUE, hazard |-> TRUE, damage |-> 7]

\* Query rectangles, in pixels: the whole map, the inside of the first tile of the
\* last row, and the last tile of the last row (it starts on a tile edge).
RectArgs == {Rect(0, 0, MapWidth * TILE_SIZE, MapHeight * TILE_SIZE),
             Rect(8, (MapHeight - 1) * TILE_SIZE + 8, 16, 16),
             TileRect(MapWidth - 1, MapHeight - 1)}

\* config['door_types']: the default configuration has none.
NoDoorTypes == [d \in {} |-> [row |-> 0, col |-> 0]]

SomeDoorTypes == [d \in {"standard", "electronic", "vault"} |->
                    IF d = "standard" THEN [row |-> 5, col |-> 0]
                    ELSE IF d = "electronic" THEN [row |-> 5, col |-> 2]
                    ELSE [row |-> 5, col |-> 4]]

DoorArgs == {"standard", "reinforced", "electronic", "vault"}

NoFile == [kind |-> "missing"]

\* --------------------------------------------------------- Tilemap.__init__
\* The objects a run does not use stay as they are.
KeepTilemap ==
  UNCHANGED <<width, height, layers, collision_rects, hazard_rects, dirty,
              door_types, file, rebuilds, readSince, saved>>

KeepAutotiling == UNCHANGED <<input_grid, autotile_grid, scan>>

KeepCamera == UNCHANGED camera

KeepGenerator == UNCHANGED gen

KeepRest == UNCHANGED <<world, editor, frame, game>>

KeepOthers == KeepAutotiling /\ KeepCamera /\ KeepGenerator /\ KeepRest

\* No world manager, editor or game built, nothing rendered.
NoRest == world = <<>> /\ editor = <<>> /\ frame = <<>> /\ game = <<>>

\* No scan of an autotile grid in progress.
NoScan == [order |-> "none", k |-> 0]

\* No grid handed over, no camera built, no generator call in progress.
NoOthers ==
  /\ input_grid = <<>>
  /\ autotile_grid = <<>>
  /\ scan = NoScan
  /\ camera = <<>>
  /\ gen = <<>>
  /\ NoRest

Constructed ==
  /\ width = MapWidth
  /\ height = MapHeight
  /\ layers = NewLayers(MapWidth, MapHeight)
  /\ collision_rects = <<>>
  /\ hazard_rects = <<>>
  /\ dirty = TRUE
  /\ op = NoCall
  /\ ret = <<>>
  /\ raised = "none"
  /\ nOps = 0
  /\ rebuilds = 0
  /\ readSince = 0
  /\ saved = <<>>

Init ==
  /\ Constructed
  /\ NoOthers
  /\ door_types = NoDoorTypes
  /\ file = NoFile

\* The calls of a run, each over its inputs.
WriteTile(Ls, Xs, Ys) ==
  \E layer \in Ls, x \in Xs, y \in Ys : SetTile(layer, x, y, CustomTile)

WriteTileById(Ls, Xs, Ys, Ids) ==
  \E layer \in Ls, x \in Xs, y \in Ys, id \in Ids : SetTileById(layer, x, y, id, 7, 1)

ReadTile(Ls, Xs, Ys) == \E layer \in Ls, x \in Xs, y \in Ys : GetTile(layer, x, y)

DoCheckCollision == \E r \in RectArgs : CheckCollision(r)

DoCheckHazardCollision == \E r \in RectArgs : CheckHazardCollision(r)

\* Writes to the three layers interleaved with the four cache reads.
Next ==
  \/ WriteTile(TileLayer, CellXs, CellYs) /\ KeepOthers
  \/ WriteTileById(TileLayer, CellXs, CellYs, {EMPTY, GROUND_BASE, SPIKE_TRAP}) /\ KeepOthers
  \/ GetCollisionRects /\ KeepOthers
  \/ GetHazardRects /\ KeepOthers
  \/ DoCheckCollision /\ KeepOthers
  \/ DoCheckHazardCollision /\ KeepOthers

Spec == Init /\ [][Next]_vars

\* Calls at and across the edges of the grid, with a read to clear the dirty flag.
NextBounds ==
  \/ WriteTile(TileLayer, EdgeXs, EdgeYs) /\ KeepOthers
  \/ WriteTileById(TileLayer, EdgeXs, EdgeYs, {GROUND_BASE, SPIKE_TRAP}) /\ KeepOthers
  \/ ReadTile(TileLayer, EdgeXs, EdgeYs) /\ KeepOthers
  \/ GetCollisionRects /\ KeepOthers

SpecBounds == Init /\ [][NextBounds]_vars

\* set_tile_by_id over every id of TileType and one id on each side of the range.
AllIds == (EMPTY - 1)..(NEON_SIGN + 1)

NextById == WriteTileById(TileLayer, {0}, CellYs, AllIds) /\ KeepOthers

SpecById == Init /\ [][NextById]_vars

\* place_door under both configurations, next to SOLID-layer writes and a read.
InitDoor ==
  /\ Constructed
  /\ NoOthers
  /\ door_types \in {NoDoorTypes, SomeDoorTypes}
  /\ file = NoFile

DoPlaceDoor == \E x \in EdgeXs, y \in CellYs, d \in DoorArgs : PlaceDoor(x, y, d)

NextDoor ==
  \/ DoPlaceDoor /\ KeepOthers
  \/ WriteTileById({SOLID}, {0}, CellYs, {EMPTY, WALL_BASIC}) /\ KeepOthers
  \/ GetCollisionRects /\ KeepOthers

SpecDoor == InitDoor /\ [][NextDoor]_vars

\* ---------------------------------------------------- the map file on disk
GarbageFile == [kind |-> "garbage"]

JsonFile(d) == [kind |-> "json", data |-> d]

WallData == TileData(TileById(WALL_BASIC, 2, 0))

SpikeData == TileData(TileById(SPIKE_TRAP, 7, 1))

\* A tile object with the required keys only.
BareData == [id |-> STAIRS, sprite_row |-> 4, sprite_col |-> 0]

\* Files with a required key missing.
NoWidthFile == JsonFile([height |-> 1, layers |-> <<>>])

NoHeightFile == JsonFile([width |-> MapWidth + 1, layers |-> <<>>])

NoLayersFile == JsonFile([width |-> 1, height |-> 2])

NoIdFile ==
  JsonFile([width |-> 1, height |-> 1,
            layers |-> <<[name |-> SOLID,
                          rows |-> <<<<[sprite_row |-> 0, sprite_col |-> 0]>>>>]>>])

\* A file whose second layer has a name TileLayer does not have.
UnknownLayerFile ==
  JsonFile([width |-> 1, height |-> 1,
            layers |-> <<[name |-> SOLID, rows |-> <<<<WallData>>>>],
                         [name |-> "lava", rows |-> <<<<WallData>>>>]>>])

\* A file whose only row is one tile shorter than the declared width.
ShortRowsFile ==
  JsonFile([width |-> 2, height |-> 1,
            layers |-> <<[name |-> HAZARD, rows |-> <<<<SpikeData>>>>]>>])

\* A complete file of a map one column by two rows.
OtherSizeFile ==
  JsonFile([width |-> 1, height |-> 2,
            layers |-> <<[name |-> SOLID, rows |-> <<<<WallData>>, <<BareData>>>>],
                         [name |-> DECOR, rows |-> <<<<BareData>>, <<BareData>>>>],
                         [name |-> HAZARD, rows |-> <<<<SpikeData>>, <<BareData>>>>]>>])

DiskFiles == {NoFile, GarbageFile, NoWidthFile, NoHeightFile, NoLayersFile, NoIdFile,
              UnknownLayerFile, ShortRowsFile, OtherSizeFile}

\* Boolean patterns for apply_autotiling: nothing occupied, and everything
\* occupied in a pattern one row and one column larger than the map.
PatternArgs ==
  {[y \in 1..MapHeight |-> [x \in 1..MapWidth |-> FALSE]],
   [y \in 1..(MapHeight + 1) |-> [x \in 1..(MapWidth + 1) |-> TRUE]]}

\* A tilemap built next to a map file left by an earlier session.
InitJson ==
  /\ Constructed
  /\ NoOthers
  /\ door_types = SomeDoorTypes
  /\ file \in DiskFiles

\* Every kind of call, with save and load.
NextJson ==
  \/ WriteTile({HAZARD}, {0}, CellYs) /\ KeepOthers
  \/ WriteTileById({SOLID}, CellXs, CellYs, {WALL_BASIC}) /\ KeepOthers
  \/ \E y \in CellYs : PlaceDoor(0, y, "electronic") /\ KeepOthers
  \/ \E p \in PatternArgs : ApplyAutotiling(SOLID, WALLS, p) /\ KeepOthers
  \/ GetCollisionRects /\ KeepOthers
  \/ SaveToJson /\ KeepOthers
  \/ LoadFromJson /\ KeepOthers

SpecJson == InitJson /\ [][NextJson]_vars

\* ------------------------------------------------------------------ claims
\* The lists the cache should hold for the grid as it is now.
FreshCollision == Rebuild(layers, width, height).collision_rects

FreshHazard == Rebuild(layers, width, height).hazard_rects

\* C1: no stale cache is observed: whenever the dirty flag is clear the cached
\* collision and hazard lists equal a fresh rebuild from the grid, and what
\* get_collision_rects / get_hazard_rects return equals it too.
C1_NoStaleCache ==
  /\ ~dirty => collision_rects = FreshCollision /\ hazard_rects = FreshHazard
  /\ op.name = "get_collision_rects" => ret = FreshCollision
  /\ op.name = "get_hazard_rects" => ret = FreshHazard

\* C2: between two SOLID-layer writes the cache is rebuilt at most once, whatever
\* reads and DECOR-layer writes happen, and exactly once as soon as a read happened;
\* that read leaves the dirty flag clear.
C2_OneRebuildPerBatch ==
  /\ rebuilds <= 1
  /\ readSince > 0 => rebuilds = 1 /\ ~dirty

\* C2 witness: two SOLID-layer writes, then two or more reads, one rebuild.
C2_Witness ==
  /\ nOps = 2
  /\ layers[SOLID][MapHeight][1].solid /\ layers[SOLID][MapHeight][MapWidth].solid
  /\ readSince = 2
  /\ rebuilds = 1

\* The damage of the hazard tiles of the HAZARD layer whose rectangle overlaps
\* rect, summed over cells 0..k-1 of the grid (row-major).
RECURSIVE GridDamage(_, _)
GridDamage(rect, k) ==
  IF k = 0 THEN 0
  ELSE LET x == (k - 1) % width
           y == (k - 1) \div width
           t == layers[HAZARD][y + 1][x + 1]
       IN GridDamage(rect, k - 1)
          + (IF t.hazard /\ ColliderRect(rect, TileRect(x, y)) THEN t.damage ELSE 0)

\* C7: check_hazard_collision(R) returns the sum of the damages of the hazard
\* tiles the HAZARD layer holds now whose rectangle overlaps R.
C7_HazardDamageSum ==
  op.name = "check_hazard_collision" =>
    ret = <<GridDamage(Rect(op.x, op.y, op.w, op.h), width * height)>>

\* C7, on a cache that matches the grid the sum is the one claimed.
C7_SumOnFreshCache ==
  (op.name = "check_hazard_collision" /\ hazard_rects = FreshHazard) =>
    ret = <<GridDamage(Rect(op.x, op.y, op.w, op.h), width * height)>>

\* The tile call of the last step addressed a cell outside the grid.
OutOfBounds(c) == c.x < 0 \/ c.x >= width \/ c.y < 0 \/ c.y >= height

TileState == <<layers, collision_rects, hazard_rects, dirty>>

\* C4: after place_door of a configured door type at an in-bounds cell, the
\* SOLID-layer tile there is the door tile and it is solid, so the next
\* get_collision_rects() holds its rectangle.
C4_DoorIsSolid ==
  /\ (op.name = "place_door" /\ op.door \in DOMAIN door_types /\ ~OutOfBounds(op)) =>
       LET t == layers[SOLID][op.y + 1][op.x + 1]
       IN t.tile_id \in {DOOR_STANDARD, DOOR_REINFORCED, DOOR_ELECTRONIC} /\ t.solid
  /\ op.name = "get_collision_rects" =>
       \A y \in 1..height, x \in 1..width :
         layers[SOLID][y][x].tile_id \in {DOOR_STANDARD, DOOR_REINFORCED, DOOR_ELECTRONIC}
           => \E i \in 1..Len(ret) : ret[i] = TileRect(x - 1, y - 1)

\* C8: get_tile outside the grid returns None; set_tile and set_tile_by_id outside
\* the grid leave every cell, the cached lists and the dirty flag as they were;
\* none of them raises.
C8_OutOfBoundsIgnored ==
  [][/\ (op'.name \in {"set_tile", "set_tile_by_id"} /\ OutOfBounds(op')) =>
          (TileState' = TileState /\ raised' = "none")
     /\ (op'.name = "get_tile" /\ OutOfBounds(op')) =>
          (ret' = <<>> /\ raised' = "none")]_vars

\* C8 witness: a write one column left of a grid that holds a solid tile and whose
\* cache is built.
C8_Witness ==
  /\ op.name = "set_tile_by_id" /\ op.x = -1 /\ op.y = 0
  /\ ~dirty /\ collision_rects # <<>>

\* C9: the tile set_tile_by_id writes has the flags of its id, whatever the layer:
\* ground and wall ids are solid and no hazard, SPIKE_TRAP is a hazard of damage 10,
\* LASER_TRAP a hazard of damage 15, every other id neither solid nor hazard.
C9_FlagsFromId ==
  (op.name = "set_tile_by_id" /\ ~OutOfBounds(op)) =>
    LET t == layers[op.layer][op.y + 1][op.x + 1]
    IN /\ t.tile_id = op.id
       /\ op.id \in {GROUND_BASE, GROUND_WORN, WALL_BASIC, WALL_REINFORCED} =>
            t.solid /\ ~t.hazard /\ t.damage = 0
       /\ op.id = SPIKE_TRAP => t.hazard /\ t.damage = 10
       /\ op.id = LASER_TRAP => t.hazard /\ t.damage = 15
       /\ op.id \notin {GROUND_BASE, GROUND_WORN, WALL_BASIC, WALL_REINFORCED,
                        SPIKE_TRAP, LASER_TRAP} =>
            ~t.solid /\ ~t.hazard /\ t.damage = 0

\* C9 witness: a laser trap written to the DECOR layer carries damage 15.
C9_Witness ==
  /\ op.name = "set_tile_by_id" /\ op.id = LASER_TRAP /\ op.layer = DECOR
  /\ layers[DECOR][op.y + 1][op.x + 1].damage = 15

\* C10: place_door with a door type the configuration does not have changes no
\* layer, neither cached list nor the dirty flag, and raises nothing.
C10_UnknownDoorIgnored ==
  [][(op'.name = "place_door" /\ op'.door \notin DOMAIN door_types) =>
       (TileState' = TileState /\ raised' = "none")]_vars

\* C10 witness: the unconfigured type "reinforced" asked for on a tilemap whose
\* configuration has other door types, at a cell inside the grid.
C10_Witness ==
  /\ op.name = "place_door" /\ op.door = "reinforced" /\ ~OutOfBounds(op)
  /\ door_types = SomeDoorTypes
  /\ nOps = 2

\* A file load_from_json can read to its end: JSON with width, height and layers,
\* every layer name one of TileLayer, and in every layer at least height rows of
\* at least width tile objects that have id, sprite_row and sprite_col.
WellFormed(f) ==
  /\ f.kind = "json"
  /\ {"width", "height", "layers"} \subseteq DOMAIN f.data
  /\ \A i \in 1..Len(f.data.layers) :
       LET e == f.data.layers[i]
       IN /\ e.name \in TileLayer
          /\ Len(e.rows) >= f.data.height
          /\ \A y \in 1..f.data.height :
               /\ Len(e.rows[y]) >= f.data.width
               /\ \A x \in 1..f.data.width :
                    {"id", "sprite_row", "sprite_col"} \subseteq DOMAIN e.rows[y][x]

\* C3: a load_from_json that fails applies no partial state: width, height, every
\* cell, the cached lists and the dirty flag are as before, and nothing is raised.
C3_FailedLoadKeepsState ==
  [][(op'.name = "load_from_json" /\ ~WellFormed(file)) =>
       /\ width' = width /\ height' = height
       /\ TileState' = TileState
       /\ raised' = "none"]_vars

\* The row count and the row lengths of every layer.
Dims(ls) == [l \in TileLayer |-> [y \in 1..Len(ls[l]) |-> Len(ls[l][y])]]

DimsAre(ls, w, h) == Dims(ls) = [l \in TileLayer |-> [y \in 1..h |-> w]]

\* C5 as claimed: width, height and the dimensions of the three layer grids always
\* equal the values given at construction.
C5_DimsFixed ==
  /\ width = MapWidth /\ height = MapHeight
  /\ DimsAre(layers, MapWidth, MapHeight)

\* C5 as amended: every call other than load_from_json leaves width, height and
\* the dimensions of the three layer grids as they were; a load_from_json of a
\* well-formed file sets width and height to the file's and gives every layer that
\* many rows and columns.
C5_DimsChangeOnlyOnLoad ==
  [][/\ op'.name # "load_from_json" =>
          (width' = width /\ height' = height /\ Dims(layers') = Dims(layers))
     /\ (op'.name = "load_from_json" /\ WellFormed(file)) =>
          /\ width' = file.data.width /\ height' = file.data.height
          /\ DimsAre(layers', file.data.width, file.data.height)]_vars

\* C5 witness: a well-formed file of another size has been loaded.
C5_Witness ==
  /\ op.name = "load_from_json" /\ WellFormed(file)
  /\ width # MapWidth /\ height # MapHeight
  /\ DimsAre(layers, width, height)

\* C6: a load_from_json of the file save_to_json wrote gives back the width, the
\* height and, in every layer, the six fields of every tile of the map that was
\* saved, and sets the dirty flag.
C6_RoundTrip ==
  (op.name = "load_from_json" /\ saved # <<>>) =>
    /\ raised = "none"
    /\ width = saved[1].width /\ height = saved[1].height
    /\ \A l \in TileLayer : \A y \in 1..height, x \in 1..width :
         layers[l][y][x] = saved[1].layers[l][y][x]
    /\ dirty

\* C6 witness: a saved map with a hazard tile of damage 7 and a door has been
\* loaded back.
C6_Witness ==
  /\ op.name = "load_from_json" /\ saved # <<>>
  /\ nOps = 2
  /\ \E y \in 1..height, x \in 1..width : layers[HAZARD][y][x].damage = 7
  /\ \E y \in 1..height, x \in 1..width : layers[SOLID][y][x].tile_id = DOOR_ELECTRONIC

\* ------------------------------------------------- AutotilingSystem, called
\* Sizes of the boolean grids handed to the autotiling system.
GridWidth == 2
GridHeight == 2

\* The grid of the worked example: 5 x 5, every cell occupied.
FullGrid == [y \in 1..5 |-> [x \in 1..5 |-> TRUE]]

\* [] and [[]], every GridWidth x GridHeight grid, and the worked example.
GridArgs ==
  {<<>>, <<<<>>>>} \cup [1..GridHeight -> [1..GridWidth -> BOOLEAN]] \cup {FullGrid}

GridW(grid) == IF grid = <<>> THEN 0 ELSE Len(grid[1])

\* Positions in the grid and one step outside it on every side.
ProbeXs(grid) == -1..GridW(grid)

ProbeYs(grid) == -1..Len(grid)

\* The calls are made one after the other: none starts while the loop of
\* generate_autotile_grid is under way. The single calls come first, the passes
\* over the grid after them.
NotScanning == scan = NoScan \/ scan.k = Len(input_grid) * GridW(input_grid)

NoScanYet == scan = NoScan

CalculateBitmask(x, y) ==
  /\ NoScanYet
  /\ op' = Call("calculate_bitmask", "", x, y, 0, 0, 0, "")
  /\ ret' = <<calculate_bitmask(input_grid, x, y)>>
  /\ raised' = "none"
  /\ UNCHANGED <<layers, nOps>>
  /\ KeepTilemap /\ KeepOthers

GetAutotileIndex(x, y) ==
  /\ NoScanYet
  /\ op' = Call("get_autotile_index", "", x, y, 0, 0, 0, "")
  /\ ret' = <<get_autotile_index(input_grid, x, y)>>
  /\ raised' = "none"
  /\ UNCHANGED <<layers, nOps>>
  /\ KeepTilemap /\ KeepOthers

GenerateAutotileGrid ==
  /\ NoScanYet
  /\ op' = Call("generate_autotile_grid", "", 0, 0, GridW(input_grid), Len(input_grid), 0, "")
  /\ ret' = <<generate_autotile_grid(input_grid)>>
  /\ raised' = "none"
  /\ UNCHANGED <<layers, nOps>>
  /\ KeepTilemap /\ KeepOthers

\* The loop of generate_autotile_grid taken one cell at a time. A cell not yet
\* visited holds Unset; the cells are visited in row-major order ("forward", as
\* the loop does) or in the opposite order ("backward").
Unset == -2

ScanOrders == {"forward", "backward"}

\* Mutant: an occupied cell next to an output cell already computed copies it.
CellValueFromOutput(solid_grid, out, x, y) ==
  IF ~solid_grid[y + 1][x + 1] THEN -1
  ELSE IF x > 0 /\ out[y + 1][x] >= 0 THEN out[y + 1][x]
  ELSE get_autotile_index(solid_grid, x, y)

\* The body of the loop for cell (x, y); out is the output built so far.
CellValue(solid_grid, out, x, y) ==
  IF solid_grid[y + 1][x + 1] THEN get_autotile_index(solid_grid, x, y) ELSE -1

ScanCells == Len(input_grid) * GridW(input_grid)

\* The k-th cell (from 0) of a scan in the given order.
ScanCell(order, k) ==
  LET c == IF order = "forward" THEN k ELSE ScanCells - 1 - k
  IN [x |-> c % GridW(input_grid), y |-> c \div GridW(input_grid)]

StartScan(order) ==
  /\ input_grid # <<>>
  /\ NotScanning
  /\ scan' = [order |-> order, k |-> 0]
  /\ autotile_grid' = [y \in 1..Len(input_grid) |-> [x \in 1..GridW(input_grid) |-> Unset]]
  /\ op' = Call("generate_autotile_grid", order, 0, 0, GridW(input_grid), Len(input_grid), 0, "")
  /\ ret' = <<>>
  /\ raised' = "none"
  /\ UNCHANGED <<layers, nOps, input_grid>>
  /\ KeepTilemap /\ KeepCamera /\ KeepGenerator /\ KeepRest

ScanStep ==
  /\ scan # NoScan
  /\ scan.k < ScanCells
  /\ LET c == ScanCell(scan.order, scan.k)
     IN autotile_grid' = [autotile_grid EXCEPT ![c.y + 1][c.x + 1] =
                            CellValue(input_grid, autotile_grid, c.x, c.y)]
  /\ scan' = [scan EXCEPT !.k = scan.k + 1]
  /\ ret' = (IF scan.k + 1 = ScanCells THEN <<autotile_grid'>> ELSE <<>>)
  /\ UNCHANGED <<op, raised, layers, nOps, input_grid>>
  /\ KeepTilemap /\ KeepCamera /\ KeepGenerator /\ KeepRest

InitAuto ==
  /\ Constructed
  /\ door_types = NoDoorTypes
  /\ file = NoFile
  /\ input_grid \in GridArgs
  /\ autotile_grid = <<>>
  /\ scan = NoScan
  /\ camera = <<>>
  /\ gen = <<>>
  /\ NoRest

NextAuto ==
  \/ \E x \in ProbeXs(input_grid), y \in ProbeYs(input_grid) : CalculateBitmask(x, y)
  \/ \E x \in 0..(GridW(input_grid) - 1), y \in 0..(Len(input_grid) - 1) :
       GetAutotileIndex(x, y)
  \/ GenerateAutotileGrid
  \/ \E order \in ScanOrders : StartScan(order)
  \/ ScanStep

SpecAuto == InitAuto /\ [][NextAuto]_vars

\* ------------------------------------------------- AutotilePalette, called
\* The two palettes and a tile type that has none.
TileTypeArgs == {GROUND, WALLS, WALLS + 1}

\* The canonical autotile indices.
AutotileIndices == 0..46

GetTileCoords(tile_type, autotile_index) ==
  /\ op' = Call("get_tile_coords", "", tile_type, 0, 0, 0, autotile_index, "")
  /\ ret' = get_tile_coords(tile_type, autotile_index)
  /\ raised' = "none"
  /\ UNCHANGED <<layers, nOps>>
  /\ KeepTilemap /\ KeepOthers

NextPalette == \E t \in TileTypeArgs, i \in AutotileIndices : GetTileCoords(t, i)

SpecPalette == Init /\ [][NextPalette]_vars

\* ------------------------------------------------------ claims, autotiling
\* (x, y) is a cell of G and it is occupied.
Occupied(G, x, y) ==
  /\ 0 <= y /\ y < Len(G)
  /\ 0 <= x /\ x < Len(G[y + 1])
  /\ G[y + 1][x + 1]

Weight(G, x, y, w) == IF Occupied(G, x, y) THEN w ELSE 0

\* The weights NW=1, N=2, NE=4, W=8, E=16, SW=32, S=64, SE=128 of the occupied
\* neighbours of an occupied cell; 0 for any other position.
NeighbourWeights(G, x, y) ==
  IF ~Occupied(G, x, y) THEN 0
  ELSE Weight(G, x - 1, y - 1, 1) + Weight(G, x, y - 1, 2) + Weight(G, x + 1, y - 1, 4)
       + Weight(G, x - 1, y, 8) + Weight(G, x + 1, y, 16)
       + Weight(G, x - 1, y + 1, 32) + Weight(G, x, y + 1, 64)
       + Weight(G, x + 1, y + 1, 128)

\* C11: calculate_bitmask(G, x, y) returns 0 when G is empty, when (x, y) is
\* outside G or when the cell is unoccupied, and otherwise the sum of the
\* weights of exactly the neighbours that lie inside G and are occupied.
C11_BitmaskIsNeighbourSum ==
  op.name = "calculate_bitmask" =>
    /\ raised = "none"
    /\ ret = <<NeighbourWeights(input_grid, op.x, op.y)>>

\* An occupied corner cell with the E and SE neighbours occupied and the S one not.
C11_Witness ==
  /\ op.name = "calculate_bitmask"
  /\ op.x = 0 /\ op.y = 0
  /\ Occupied(input_grid, 0, 0) /\ Occupied(input_grid, 1, 0)
  /\ ~Occupied(input_grid, 0, 1) /\ Occupied(input_grid, 1, 1)
  /\ ret = <<16 + 128>>

\* The bitmasks that have an entry in the table.
TableBitmasks == {p[1] : p \in BITMASK_TO_TILE}

\* C12: generate_autotile_grid returns a grid of the dimensions of its
\* rectangular input, with -1 in each unoccupied cell and an index in 0..46 in
\* each occupied one, index 0 where the cell's bitmask has no table entry.
C12_IndexOrSentinel ==
  op.name = "generate_autotile_grid" /\ ret # <<>> =>
    LET out == ret[1]
    IN /\ Len(out) = Len(input_grid)
       /\ \A y \in 1..Len(input_grid) :
            /\ Len(out[y]) = Len(input_grid[y])
            /\ \A x \in 1..Len(input_grid[y]) :
                 /\ ~input_grid[y][x] => out[y][x] = -1
                 /\ input_grid[y][x] => out[y][x] \in 0..46
                 /\ input_grid[y][x]
                      /\ NeighbourWeights(input_grid, x - 1, y - 1) \notin TableBitmasks
                      => out[y][x] = 0

\* A grid with an unoccupied cell and an occupied cell whose bitmask (40: the W
\* and SW neighbours) has no table entry.
C12_Witness ==
  /\ op.name = "generate_autotile_grid"
  /\ ret # <<>>
  /\ Len(input_grid) = GridHeight
  /\ ~input_grid[2][2]
  /\ ret[1][2][2] = -1
  /\ NeighbourWeights(input_grid, 1, 0) = 40
  /\ 40 \notin TableBitmasks
  /\ ret[1][1][2] = 0

\* What the table gives for a bitmask, 0 when it has no entry.
TableEntryOrZero(b) ==
  IF b \in TableBitmasks THEN (CHOOSE p \in BITMASK_TO_TILE : p[1] = b)[2] ELSE 0

\* C13: in the 5x5 all-occupied grid the centre cell (2,2) has bitmask 255 and
\* index 24, and the corner (0,0) has bitmask 208 and the table's entry for 208,
\* or 0 when 208 has none.
C13_FullGridCells ==
  input_grid = FullGrid =>
    /\ op.name = "calculate_bitmask" /\ op.x = 2 /\ op.y = 2 => ret = <<255>>
    /\ op.name = "get_autotile_index" /\ op.x = 2 /\ op.y = 2 => ret = <<24>>
    /\ op.name = "calculate_bitmask" /\ op.x = 0 /\ op.y = 0 => ret = <<208>>
    /\ op.name = "get_autotile_index" /\ op.x = 0 /\ op.y = 0
         => ret = <<TableEntryOrZero(208)>>

\* The index of the corner cell of the 5x5 grid has been asked for.
C13_Witness ==
  /\ input_grid = FullGrid
  /\ op.name = "get_autotile_index" /\ op.x = 0 /\ op.y = 0
  /\ ret = <<0>>

\* C14: generate_autotile_grid is a pure transform: no step changes the input
\* grid, and a completed pass over the cells, in whichever order they were
\* visited, leaves the output that a call on the input grid returns.
C14_PureTransform ==
  [][/\ input_grid' = input_grid
     /\ scan' # NoScan /\ scan'.k = Len(input_grid) * GridW(input_grid)
          => autotile_grid' = generate_autotile_grid(input_grid)
     /\ op'.name = "generate_autotile_grid" /\ ret' # <<>>
          => ret' = <<generate_autotile_grid(input_grid)>>]_vars

\* A backward pass over a grid with occupied and unoccupied cells is complete.
C14_Witness ==
  /\ scan # NoScan
  /\ scan.order = "backward"
  /\ scan.k = GridWidth * GridHeight
  /\ autotile_grid = ret[1]
  /\ \E y \in 1..Len(input_grid) : \E x \in 1..Len(input_grid[y]) : input_grid[y][x]
  /\ \E y \in 1..Len(input_grid) : \E x \in 1..Len(input_grid[y]) : ~input_grid[y][x]

\* C16: get_tile_coords(group, index) is (base_row + index // 16, index % 16)
\* with base_row 9 for GROUND and 10 for WALLS, for every index in 0..46, and
\* (0, 0), without raising, for a group that has no palette.
C16_TileCoords ==
  op.name = "get_tile_coords" =>
    /\ raised = "none"
    /\ op.x \in {GROUND, WALLS} =>
         LET base_row == IF op.x = GROUND THEN 9 ELSE 10
         IN /\ ret[2] \in 0..15
            /\ (ret[1] - base_row) * 16 + ret[2] = op.id
    /\ op.x \notin {GROUND, WALLS} => ret = <<0, 0>>

\* The last index of the WALLS palette, two rows below its base row.
C16_Witness ==
  /\ op.name = "get_tile_coords"
  /\ op.x = WALLS /\ op.id = 46
  /\ ret = <<12, 14>>

\* ------------------------------------------- Tilemap.apply_autotiling, called
\* Patterns of the size of the map with only the first cell occupied and with
\* every cell but the last occupied, next to the patterns of PatternArgs.
TilingPatterns ==
  PatternArgs
  \cup {[y \in 1..MapHeight |-> [x \in 1..MapWidth |-> x = 1 /\ y = 1]],
        [y \in 1..MapHeight |-> [x \in 1..MapWidth |-> ~(x = MapWidth /\ y = MapHeight)]]}

\* The target layers, each with a palette; the SOLID layer with both.
TilingTargets ==
  {<<SOLID, GROUND>>, <<SOLID, WALLS>>, <<DECOR, WALLS>>, <<HAZARD, GROUND>>}

\* apply_autotiling on any layer; input_grid keeps the pattern that was handed
\* over.
DoApplyAutotiling ==
  \E t \in TilingTargets, p \in TilingPatterns :
    /\ ApplyAutotiling(t[1], t[2], p)
    /\ input_grid' = p
    /\ UNCHANGED <<autotile_grid, scan>>
    /\ KeepCamera /\ KeepGenerator /\ KeepRest

NextTiling ==
  \/ WriteTile(TileLayer, {MapWidth - 1}, CellYs) /\ KeepOthers
  \/ DoApplyAutotiling
  \/ GetCollisionRects /\ KeepOthers

SpecTiling == Init /\ [][NextTiling]_vars

\* The pattern has a true value for cell (x, y) (from 0).
PatternTrue(p, x, y) == y < Len(p) /\ x < Len(p[y + 1]) /\ p[y + 1][x + 1]

\* C15: apply_autotiling(layer, group, pattern) writes only the cells of the
\* target layer where the pattern is true: the other two layers and every cell
\* whose pattern value is false keep their tiles, and with an all-false pattern
\* the autotile grid is all -1 and the layers and the dirty flag are unchanged.
C15_WritesOnlyPatternCells ==
  [][op'.name = "apply_autotiling" /\ nOps' = nOps + 1 =>
       LET p == input_grid'
           target == op'.layer
       IN /\ \A l \in TileLayer \ {target} : layers'[l] = layers[l]
          /\ \A y \in 0..(height - 1), x \in 0..(width - 1) :
               ~PatternTrue(p, x, y) => layers'[target][y + 1][x + 1] = layers[target][y + 1][x + 1]
          /\ (\A y \in 1..Len(p) : \A x \in 1..Len(p[y]) : ~p[y][x]) =>
               /\ LET agrid == generate_autotile_grid(p)
                  IN \A y \in 1..Len(p) : \A x \in 1..Len(p[y]) : agrid[y][x] = -1
               /\ layers' = layers
               /\ dirty' = dirty]_vars

\* After a write to the last cell of a layer, a pattern occupied in the first cell
\* only has been applied to that layer: the first cell holds the autotile, the
\* last one the tile written before.
C15_Witness ==
  /\ op.name = "apply_autotiling"
  /\ input_grid = [y \in 1..MapHeight |-> [x \in 1..MapWidth |-> x = 1 /\ y = 1]]
  /\ layers[op.layer][1][1].tile_id \in {GROUND_BASE, WALL_BASIC}
  /\ layers[op.layer][MapHeight][MapWidth] = CustomTile

\* ------------------------------------------------------------------ Camera
\* Camera.x, y, target_x and target_y are floats. They are held here as exact
\* multiples of 1/Scale: a position p is the integer p * Scale. Each update
\* multiplies a difference by the smoothing factor 0.1, so after at most MaxOps
\* updates from whole-number positions every value is such a multiple.
Scale == 10 ^ MaxOps

\* Camera.__init__
NewCamera(w, h) ==
  [x |-> 0, y |-> 0, width |-> w, height |-> h, target_x |-> 0, target_y |-> 0]

\* Mutant: the clamp without its lower limit.
ClampUpperOnly(v, limit) == IF limit < v THEN limit ELSE v

\* max(0, min(v, limit))
Clamp(v, limit) ==
  LET m == IF limit < v THEN limit ELSE v
  IN IF m > 0 THEN m ELSE 0

\* Camera.update along one axis: pos += (target - pos) * smoothing, then the
\* clamp when a level size is given (None and 0 are both false).
Follow(pos, target, level_size, view_size) ==
  LET moved == pos + (target - pos) \div 10
  IN IF level_size # 0 THEN Clamp(moved, (level_size - view_size) * Scale)
     ELSE moved

\* Camera.update(dt, target_x, target_y, level_width, level_height)
Update(target_x, target_y, level_width, level_height) ==
  LET tx == (target_x - camera.width \div 2) * Scale
      ty == (target_y - camera.height \div 2) * Scale
  IN /\ nOps < MaxOps
     /\ nOps' = nOps + 1
     /\ camera' = [camera EXCEPT
                     !.target_x = tx,
                     !.target_y = ty,
                     !.x = Follow(camera.x, tx, level_width, camera.width),
                     !.y = Follow(camera.y, ty, level_height, camera.height)]
     /\ op' = Call("update", "", target_x, target_y, level_width, level_height, 0, "")
     /\ ret' = <<>>
     /\ raised' = "none"
     /\ UNCHANGED layers
     /\ KeepTilemap /\ KeepAutotiling /\ KeepGenerator /\ KeepRest

\* Camera.set_position(x, y), with whole-number arguments
SetPosition(x, y) ==
  /\ camera' = [camera EXCEPT !.x = x * Scale, !.y = y * Scale,
                              !.target_x = x * Scale, !.target_y = y * Scale]
  /\ op' = Call("set_position", "", x, y, 0, 0, 0, "")
  /\ ret' = <<>>
  /\ raised' = "none"
  /\ UNCHANGED <<layers, nOps>>
  /\ KeepTilemap /\ KeepAutotiling /\ KeepGenerator /\ KeepRest

\* int(v) for a float v held as v * Scale: truncation towards zero.
PyInt(v) == IF v >= 0 THEN v \div Scale ELSE -((-v) \div Scale)

\* Camera.world_to_screen: world coordinates (times Scale) to whole pixels.
world_to_screen(cam, world_x, world_y) ==
  <<PyInt(world_x - cam.x), PyInt(world_y - cam.y)>>

\* Camera.screen_to_world: whole pixels to world coordinates (times Scale).
screen_to_world(cam, screen_x, screen_y) ==
  <<screen_x * Scale + cam.x, screen_y * Scale + cam.y>>

WorldToScreen(world_x, world_y) ==
  /\ op' = Call("world_to_screen", "", world_x, world_y, 0, 0, 0, "")
  /\ ret' = world_to_screen(camera, world_x * Scale, world_y * Scale)
  /\ raised' = "none"
  /\ UNCHANGED <<layers, nOps>>
  /\ KeepTilemap /\ KeepOthers

ScreenToWorld(screen_x, screen_y) ==
  /\ op' = Call("screen_to_world", "", screen_x, screen_y, 0, 0, 0, "")
  /\ ret' = screen_to_world(camera, screen_x, screen_y)
  /\ raised' = "none"
  /\ UNCHANGED <<layers, nOps>>
  /\ KeepTilemap /\ KeepOthers

\* Viewports (width, height), one with odd sizes.
Viewports == {<<4, 2>>, <<5, 3>>}

\* Level sizes for a viewport: the viewport's own size and a larger level.
LevelsFor(cam) == {<<cam.width, cam.height>>, <<cam.width + 4, cam.height + 2>>}

\* Targets left of, inside and far right of the level.
TargetArgs == {<<-3, 0>>, <<0, 7>>, <<5, 1>>, <<40, 40>>}

\* Starting positions inside and outside the level.
PositionArgs == {<<0, 0>>, <<-1, 2>>, <<3, 9>>}

\* Points handed to the coordinate conversions.
PointArgs == {<<0, 0>>, <<1, -2>>, <<7, 3>>}

InitCamera ==
  /\ Constructed
  /\ door_types = NoDoorTypes
  /\ file = NoFile
  /\ input_grid = <<>>
  /\ autotile_grid = <<>>
  /\ scan = NoScan
  /\ camera \in {NewCamera(v[1], v[2]) : v \in Viewports}
  /\ gen = <<>>
  /\ NoRest

NextCamera ==
  \/ \E t \in TargetArgs, l \in LevelsFor(camera) : Update(t[1], t[2], l[1], l[2])
  \/ \E p \in PositionArgs : SetPosition(p[1], p[2])
  \/ \E p \in PointArgs : WorldToScreen(p[1], p[2])
  \/ \E p \in PointArgs : ScreenToWorld(p[1], p[2])

SpecCamera == InitCamera /\ [][NextCamera]_vars

\* C17: with level bounds (W, H) and a viewport (w, h), W >= w and H >= h,
\* passed to every update, after each update from any starting position the
\* camera satisfies 0 <= x <= W - w and 0 <= y <= H - h.
C17_CameraInLevel ==
  op.name = "update" =>
    /\ 0 <= camera.x /\ camera.x <= (op.w - camera.width) * Scale
    /\ 0 <= camera.y /\ camera.y <= (op.h - camera.height) * Scale

\* An update towards a target left of the level, from a start outside it on the
\* left, in a level larger than the viewport: the clamp put x on the left edge.
C17_Witness ==
  /\ op.name = "update"
  /\ op.x < 0
  /\ op.w > camera.width
  /\ camera.target_x < 0
  /\ camera.x = 0
  /\ camera.y > 0

\* C18: world_to_screen and screen_to_world are exact inverses at every camera
\* position reachable through update and set_position: converting a world
\* point to the screen and back gives the point, and a screen point to the
\* world and back gives the screen point.
C18_ExactInverses ==
  \A p \in PointArgs :
    /\ LET s == world_to_screen(camera, p[1] * Scale, p[2] * Scale)
       IN screen_to_world(camera, s[1], s[2]) = <<p[1] * Scale, p[2] * Scale>>
    /\ LET w == screen_to_world(camera, p[1], p[2])
       IN world_to_screen(camera, w[1], w[2]) = p

\* From the screen to the world and back is exact at every reachable position.
C18_ScreenRoundTrip ==
  \A p \in PointArgs :
    LET w == screen_to_world(camera, p[1], p[2])
    IN world_to_screen(camera, w[1], w[2]) = p

\* ------------------------------------------------------------ MapGenerator
\* What get_tile returns for a grid of width w and height h: <<>> is None.
TileOrNone(ls, w, h, layer, x, y) ==
  IF InBounds(w, h, x, y) THEN <<CellAt(ls, layer, x, y)>> ELSE <<>>

\* set_tile on a grid of width w and height h, as a value.
PutTile(ls, w, h, layer, x, y, tile) ==
  IF InBounds(w, h, x, y) THEN CellPut(ls, layer, x, y, tile) ELSE ls

Max(a, b) == IF a > b THEN a ELSE b

Min(a, b) == IF a < b THEN a ELSE b

\* Mutant: the exclusion zone one tile wide.
IsValidHazardPositionNear(ls, w, h, x, y) ==
  LET solid_tile == TileOrNone(ls, w, h, SOLID, x, y)
      hazard_tile == TileOrNone(ls, w, h, HAZARD, x, y)
  IN IF solid_tile # <<>> /\ solid_tile[1].solid THEN FALSE
     ELSE IF hazard_tile # <<>> /\ hazard_tile[1].hazard THEN FALSE
     ELSE ~ \E check_y \in Max(0, y - 1)..(Min(h, y + 2) - 1),
               check_x \in Max(0, x - 1)..(Min(w, x + 2) - 1) :
              /\ ~(check_x = x /\ check_y = y)
              /\ CellAt(ls, HAZARD, check_x, check_y).hazard

\* MapGenerator._is_valid_hazard_position on a tilemap of width w, height h.
\* The loops run over cells inside the grid, where get_tile returns a tile.
IsValidHazardPosition(ls, w, h, x, y) ==
  LET solid_tile == TileOrNone(ls, w, h, SOLID, x, y)
      hazard_tile == TileOrNone(ls, w, h, HAZARD, x, y)
  IN IF solid_tile # <<>> /\ solid_tile[1].solid THEN FALSE
     ELSE IF hazard_tile # <<>> /\ hazard_tile[1].hazard THEN FALSE
     ELSE ~ \E check_y \in Max(0, y - 2)..(Min(h, y + 3) - 1),
               check_x \in Max(0, x - 2)..(Min(w, x + 3) - 1) :
              /\ ~(check_x = x /\ check_y = y)
              /\ CellAt(ls, HAZARD, check_x, check_y).hazard

\* MapGenerator._is_valid_decor_position
IsValidDecorPosition(ls, w, h, x, y) ==
  LET solid_tile == TileOrNone(ls, w, h, SOLID, x, y)
      decor_tile == TileOrNone(ls, w, h, DECOR, x, y)
  IN IF solid_tile # <<>> /\ solid_tile[1].solid THEN FALSE
     ELSE IF decor_tile # <<>> /\ decor_tile[1].tile_id # EMPTY THEN FALSE
     ELSE \E adj \in {<<x - 1, y>>, <<x + 1, y>>, <<x, y - 1>>, <<x, y + 1>>} :
            LET adj_tile == TileOrNone(ls, w, h, SOLID, adj[1], adj[2])
            IN /\ adj_tile # <<>>
               /\ adj_tile[1].solid
               /\ adj_tile[1].tile_id \in {WALL_BASIC, WALL_REINFORCED}

\* random.randint(lo, hi): the values the model draws, the two ends of the
\* range; the range is empty, and randint raises ValueError, when lo > hi.
RandInt(lo, hi) == IF lo > hi THEN {} ELSE {lo, hi}

\* The guarded placement shared by _add_hazards and _add_danger_room:
\* if self._is_valid_hazard_position(x, y): set_tile_by_id(HAZARD, x, y, ...)
PlaceHazardIfValid(ls, w, h, x, y, tile_id, sprite_col) ==
  IF IsValidHazardPosition(ls, w, h, x, y)
    THEN [layers |-> PutTile(ls, w, h, HAZARD, x, y, TileById(tile_id, 7, sprite_col)),
          placed |-> TRUE]
    ELSE [layers |-> ls, placed |-> FALSE]

\* One pass of the placement loops of _add_hazards and _add_danger_room at
\* position (x, y): the validity check, then the write when it accepts.
AttemptHazard(x, y, tile_id) ==
  LET r == PlaceHazardIfValid(layers, width, height, x, y, tile_id,
                              IF tile_id = LASER_TRAP THEN 0 ELSE 1)
  IN /\ layers' = r.layers
     /\ op' = Call("_is_valid_hazard_position", HAZARD, x, y, 0, 0, tile_id, "")
     /\ ret' = <<r.placed>>
     /\ raised' = "none"
     /\ UNCHANGED <<nOps, dirty, rebuilds, readSince>>
     /\ KeepSize /\ KeepCache /\ KeepDisk /\ KeepOthers

\* _add_basic_room(x, y, w, h) writes a wall tile to cell (px, py)
RoomWall(x, y, w, h, px, py) ==
  \/ x <= px /\ px <= x + w - 1 /\ py \in {y, y + h - 1}
  \/ y <= py /\ py <= y + h - 1 /\ px \in {x, x + w - 1}

\* _add_basic_room(x, y, w, h) writes a floor tile to cell (px, py)
RoomFloor(x, y, w, h, px, py) ==
  x + 1 <= px /\ px <= x + w - 2 /\ y + 1 <= py /\ py <= y + h - 2

\* MapGenerator._add_basic_room, as the SOLID layer it leaves: floor inside,
\* then walls on the perimeter, each written with set_tile_by_id.
AddBasicRoom(ls, x, y, w, h) ==
  [ls EXCEPT ![SOLID] =
     [cy \in 1..height |->
        [cx \in 1..width |->
           IF RoomWall(x, y, w, h, cx - 1, cy - 1) THEN TileById(WALL_BASIC, 3, 0)
           ELSE IF RoomFloor(x, y, w, h, cx - 1, cy - 1) THEN TileById(GROUND_BASE, 0, 0)
           ELSE ls[SOLID][cy][cx]]]]

\* The layers the loop of _add_danger_room can leave after n more passes, from
\* any of the layers in S.
RECURSIVE DangerPasses(_, _, _, _, _, _)
DangerPasses(S, n, x, y, w, h) ==
  IF n = 0 THEN S
  ELSE DangerPasses(
         {PlaceHazardIfValid(ls, width, height, hx, hy, t,
                             IF t = LASER_TRAP THEN 0 ELSE 1).layers :
            ls \in S, hx \in RandInt(x + 2, x + w - 3),
            hy \in RandInt(y + 2, y + h - 3), t \in {LASER_TRAP, SPIKE_TRAP}},
         n - 1, x, y, w, h)

\* MapGenerator.add_room(x, y, width, height, "danger")
AddDangerRoom(x, y, w, h) ==
  LET room == AddBasicRoom(layers, x, y, w, h)
      hazard_count == (w * h) \div 20
      empty_range == RandInt(x + 2, x + w - 3) = {} \/ RandInt(y + 2, y + h - 3) = {}
      wrote == \E px \in 0..(width - 1), py \in 0..(height - 1) :
                 RoomWall(x, y, w, h, px, py) \/ RoomFloor(x, y, w, h, px, py)
  IN /\ nOps < MaxOps
     /\ nOps' = nOps + 1
     /\ op' = Call("add_room", "danger", x, y, w, h, 0, "")
     /\ ret' = <<>>
     /\ IF hazard_count > 0 /\ empty_range
          THEN layers' = room /\ raised' = "ValueError"
          ELSE /\ layers' \in DangerPasses({room}, hazard_count, x, y, w, h)
               /\ raised' = "none"
     /\ dirty' = (IF wrote THEN TRUE ELSE dirty)
     /\ rebuilds' = (IF wrote THEN 0 ELSE rebuilds)
     /\ readSince' = (IF wrote THEN 0 ELSE readSince)
     /\ KeepSize /\ KeepCache /\ KeepDisk /\ KeepOthers

\* The tilemap of the worked example, and the three positions tried on it.
ExampleMap == <<14, 6>>

ExamplePositions == {<<10, 5>>, <<11, 5>>, <<13, 5>>}

\* A map two tiles wider than the others, so that two hazards fit on a row.
HazardMap == <<MapWidth + 2, MapHeight>>

\* On the small map: the first two and the last column and one column outside
\* on each side, in the first and the last row and one row above.
HazardPositions ==
  IF <<width, height>> = ExampleMap THEN ExamplePositions
  ELSE {-1, 0, 1, width - 1, width} \X {-1, 0, height - 1}

\* Rooms over the whole map, over its right half, and one too narrow for the
\* random range of its hazards.
DangerRoomArgs ==
  IF <<width, height>> = ExampleMap THEN {}
  ELSE {<<-2, -2, width + 4, height + 4>>, <<1, -2, width + 4, height + 4>>,
        <<0, 0, 4, 5>>}

\* Tilemap(w, h)
ConstructedAs(w, h) ==
  /\ width = w
  /\ height = h
  /\ layers = NewLayers(w, h)
  /\ collision_rects = <<>>
  /\ hazard_rects = <<>>
  /\ dirty = TRUE
  /\ op = NoCall
  /\ ret = <<>>
  /\ raised = "none"
  /\ nOps = 0
  /\ rebuilds = 0
  /\ readSince = 0
  /\ saved = <<>>

\* A new, hazard-free tilemap: the small map or the map of the example.
InitHazards ==
  /\ \E m \in {HazardMap, ExampleMap} : ConstructedAs(m[1], m[2])
  /\ NoOthers
  /\ door_types = NoDoorTypes
  /\ file = NoFile

NextHazards ==
  \/ \E p \in HazardPositions, t \in {LASER_TRAP, SPIKE_TRAP} : AttemptHazard(p[1], p[2], t)
  \/ \E r \in DangerRoomArgs : AddDangerRoom(r[1], r[2], r[3], r[4])
  \/ width = HazardMap[1] /\ WriteTileById({SOLID}, {0}, CellYs, {WALL_BASIC}) /\ KeepOthers

SpecHazards == InitHazards /\ [][NextHazards]_vars

\* The cells that hold a hazard tile.
HazardCells(ls) ==
  {c \in (0..(width - 1)) \X (0..(height - 1)) : ls[HAZARD][c[2] + 1][c[1] + 1].hazard}

Abs(n) == IF n < 0 THEN -n ELSE n

\* Within 2 tiles: |dx| <= 2 and |dy| <= 2.
Within2(a, b) == Abs(a[1] - b[1]) <= 2 /\ Abs(a[2] - b[2]) <= 2

\* What the validity check of (x, y) should answer on layers ls.
HazardAllowed(ls, x, y) ==
  /\ ~(InBounds(width, height, x, y) /\ ls[SOLID][y + 1][x + 1].solid)
  /\ \A c \in HazardCells(ls) : ~Within2(c, <<x, y>>)

\* C20: the hazard validity check rejects a position whose SOLID tile is solid,
\* that holds a hazard or has a hazard tile within 2 tiles, and accepts it
\* otherwise; with a hazard at (10,5) on otherwise empty layers (11,5) is
\* rejected and (13,5) accepted; and after any sequence of generator hazard
\* placements on an initially hazard-free map no two hazard tiles lie within
\* 2 tiles of each other.
C20_HazardsKeptApart ==
  [][/\ op'.name = "_is_valid_hazard_position" =>
          /\ ret' = <<HazardAllowed(layers, op'.x, op'.y)>>
          /\ HazardCells(layers) = {<<10, 5>>} /\ <<op'.x, op'.y>> = <<11, 5>>
               => ret' = <<FALSE>> /\ layers' = layers
          /\ HazardCells(layers) = {<<10, 5>>} /\ <<op'.x, op'.y>> = <<13, 5>>
               => ret' = <<TRUE>> /\ HazardCells(layers') = {<<10, 5>>, <<13, 5>>}
     /\ \A a \in HazardCells(layers'), b \in HazardCells(layers') :
          a # b => ~Within2(a, b)]_vars

\* On the example map, with hazards at (10,5) and (13,5) in place, (11,5) has
\* just been rejected.
C20_Witness ==
  /\ <<width, height>> = ExampleMap
  /\ HazardCells(layers) = {<<10, 5>>, <<13, 5>>}
  /\ op.name = "_is_valid_hazard_position"
  /\ <<op.x, op.y>> = <<11, 5>>
  /\ ret = <<FALSE>>

\* -------------------------------------- MapGenerator.generate_test_room
\* _create_floor_pattern(width, height): the cells inside the perimeter.
FloorPattern(w, h) ==
  [y \in 1..h |-> [x \in 1..w |-> 1 <= y - 1 /\ y - 1 <= h - 2 /\ 1 <= x - 1 /\ x - 1 <= w - 2]]

\* _create_wall_pattern(width, height) once the three random wall pieces are
\* drawn: the perimeter, the pillar at the centre of a room large enough, and
\* each piece with the cell to its right.
WallPattern(w, h, pieces) ==
  LET center_x == w \div 2
      center_y == h \div 2
  IN [y \in 1..h |-> [x \in 1..w |->
        \/ y - 1 \in {0, h - 1}
        \/ x - 1 \in {0, w - 1}
        \/ /\ center_x > 2 /\ center_y > 2
           /\ x - 1 \in {center_x, center_x + 1}
           /\ y - 1 \in {center_y, center_y + 1}
        \/ \E piece \in pieces : y - 1 = piece[2] /\ x - 1 \in {piece[1], piece[1] + 1}]]

\* Mutant: the loop also writes the cells whose autotile index is -1.
AutotiledEveryCell(ls, layer, tile_type, pattern) ==
  LET agrid == generate_autotile_grid(pattern)
      w == IF agrid = <<>> THEN 0 ELSE Len(agrid[1])
      tile_id == IF tile_type = GROUND THEN GROUND_BASE ELSE WALL_BASIC
      Written(x, y) == /\ y < Len(agrid) /\ x < w
                       /\ InBounds(width, height, x, y)
      Coords(x, y) == get_tile_coords(tile_type, agrid[y + 1][x + 1])
  IN [layers |-> [ls EXCEPT ![layer] =
                    [y \in 1..height |-> [x \in 1..width |->
                       IF Written(x - 1, y - 1)
                         THEN TileById(tile_id, Coords(x - 1, y - 1)[1],
                                       Coords(x - 1, y - 1)[2])
                         ELSE ls[layer][y][x]]]],
      wrote |-> \E y \in 0..(height - 1), x \in 0..(width - 1) : Written(x, y)]

\* apply_autotiling on layers that hold a tile for every cell of the map, as
\* the layers it leaves: the loop writes each cell of the autotile grid at most
\* once, so every cell is given by its own pass of the loop.
Autotiled(ls, layer, tile_type, pattern) ==
  LET agrid == generate_autotile_grid(pattern)
      w == IF agrid = <<>> THEN 0 ELSE Len(agrid[1])
      tile_id == IF tile_type = GROUND THEN GROUND_BASE ELSE WALL_BASIC
      Written(x, y) == /\ y < Len(agrid) /\ x < w
                       /\ agrid[y + 1][x + 1] # -1
                       /\ InBounds(width, height, x, y)
      Coords(x, y) == get_tile_coords(tile_type, agrid[y + 1][x + 1])
  IN [layers |-> [ls EXCEPT ![layer] =
                    [y \in 1..height |-> [x \in 1..width |->
                       IF Written(x - 1, y - 1)
                         THEN TileById(tile_id, Coords(x - 1, y - 1)[1],
                                       Coords(x - 1, y - 1)[2])
                         ELSE ls[layer][y][x]]]],
      wrote |-> \E y \in 0..(height - 1), x \in 0..(width - 1) : Written(x, y)]

\* _apply_walls_over_floor after its apply_autotiling: every tile of the SOLID
\* layer under a wall cell of the pattern gets the wall id and becomes solid.
WallsOverFloor(ls, pattern, w, h) ==
  [ls EXCEPT ![SOLID] =
     [y \in 1..height |-> [x \in 1..width |->
        IF y <= h /\ x <= w /\ pattern[y][x]
          THEN [ls[SOLID][y][x] EXCEPT !.tile_id = WALL_BASIC, !.solid = TRUE]
          ELSE ls[SOLID][y][x]]]]

\* No generator call in progress. `pieces` holds the random wall pieces drawn by
\* _create_wall_pattern, which fix the local wall_pattern.
IdleGenerator ==
  [pc |-> "idle", width |-> 0, height |-> 0, pieces |-> {},
   decorations_added |-> 0, attempts |-> 0, spike_count |-> 0, hazards_added |-> 0]

GenFrame ==
  /\ UNCHANGED <<nOps, ret>>
  /\ KeepSize /\ KeepCache /\ KeepDisk /\ KeepAutotiling /\ KeepCamera
  /\ KeepRest

\* generate_test_room(width, height), steps 1 to 3: the two patterns and the
\* autotiled floor. The first random.randint of _create_wall_pattern raises
\* ValueError when its range is empty, before any tile is written.
GenerateTestRoom(w, h) ==
  /\ gen.pc = "idle"
  /\ op' = Call("generate_test_room", "", 0, 0, w, h, 0, "")
  /\ IF RandInt(5, w - 6) = {} \/ RandInt(3, h - 4) = {}
       THEN /\ raised' = "ValueError"
            /\ gen' = [gen EXCEPT !.pc = "raised", !.width = w, !.height = h]
            /\ UNCHANGED <<layers, dirty, rebuilds, readSince>>
       ELSE LET floor == Autotiled(layers, SOLID, GROUND, FloorPattern(w, h))
            IN /\ layers' = floor.layers
               /\ raised' = "none"
               /\ dirty' = (IF floor.wrote THEN TRUE ELSE dirty)
               /\ rebuilds' = (IF floor.wrote THEN 0 ELSE rebuilds)
               /\ readSince' = (IF floor.wrote THEN 0 ELSE readSince)
               /\ \E p1 \in RandInt(5, w - 6) \X RandInt(3, h - 4),
                     p2 \in RandInt(5, w - 6) \X RandInt(3, h - 4),
                     p3 \in RandInt(5, w - 6) \X RandInt(3, h - 4) :
                    gen' = [gen EXCEPT !.pc = "walls", !.width = w, !.height = h,
                                       !.pieces = {p1, p2, p3}]
  /\ GenFrame

\* generate_test_room, step 4: _apply_walls_over_floor(wall_pattern, width,
\* height), the last use of wall_pattern.
ApplyWallsOverFloor ==
  LET wall_pattern == WallPattern(gen.width, gen.height, gen.pieces)
      walls == Autotiled(layers, SOLID, WALLS, wall_pattern)
  IN /\ gen.pc = "walls"
     /\ layers' = WallsOverFloor(walls.layers, wall_pattern, gen.width, gen.height)
     /\ dirty' = (IF walls.wrote THEN TRUE ELSE dirty)
     /\ rebuilds' = (IF walls.wrote THEN 0 ELSE rebuilds)
     /\ readSince' = (IF walls.wrote THEN 0 ELSE readSince)
     /\ gen' = [gen EXCEPT !.pc = "decorations", !.pieces = {}]
     /\ UNCHANGED <<op, raised>>
     /\ GenFrame

\* _add_decorations, the loop over the first n terminal positions.
RECURSIVE TerminalsPlaced(_, _, _)
TerminalsPlaced(ls, positions, n) ==
  IF n = 0 THEN [layers |-> ls, added |-> 0]
  ELSE LET before == TerminalsPlaced(ls, positions, n - 1)
           x == positions[n][1]
           y == positions[n][2]
       IN IF IsValidDecorPosition(before.layers, width, height, x, y)
            THEN [layers |-> PutTile(before.layers, width, height, DECOR, x, y,
                                     TileById(TERMINAL, 5, 0)),
                  added |-> before.added + 1]
            ELSE before

\* _add_decorations up to its while loop: the five terminals.
AddTerminals ==
  LET w == gen.width
      h == gen.height
      terminal_positions == <<<<5, 1>>, <<w - 6, 1>>, <<1, h \div 2>>,
                              <<w - 2, h \div 2>>, <<w \div 2, h - 2>>>>
      r == TerminalsPlaced(layers, terminal_positions, Len(terminal_positions))
  IN /\ gen.pc = "decorations"
     /\ layers' = r.layers
     /\ gen' = [gen EXCEPT !.pc = "neon", !.decorations_added = r.added, !.attempts = 0]
     /\ UNCHANGED <<op, raised, dirty, rebuilds, readSince>>
     /\ GenFrame

\* One pass of the while loop of _add_decorations.
NeonAttempt ==
  /\ gen.pc = "neon"
  /\ gen.decorations_added < 8 /\ gen.attempts < 20
  /\ IF RandInt(3, gen.width - 4) = {} \/ RandInt(2, gen.height - 3) = {}
       THEN /\ raised' = "ValueError"
            /\ gen' = [gen EXCEPT !.pc = "raised"]
            /\ UNCHANGED layers
       ELSE \E x \in RandInt(3, gen.width - 4), y \in RandInt(2, gen.height - 3),
               neon_col \in RandInt(0, 3) :
              /\ raised' = "none"
              /\ IF IsValidDecorPosition(layers, width, height, x, y)
                   THEN /\ layers' = PutTile(layers, width, height, DECOR, x, y,
                                             TileById(NEON_SIGN, 6, neon_col))
                        /\ gen' = [gen EXCEPT !.attempts = @ + 1,
                                              !.decorations_added = @ + 1]
                   ELSE /\ UNCHANGED layers
                        /\ gen' = [gen EXCEPT !.attempts = @ + 1]
  /\ UNCHANGED <<op, dirty, rebuilds, readSince>>
  /\ GenFrame

\* _add_hazards, the loop over the first n laser positions.
RECURSIVE LasersPlaced(_, _, _)
LasersPlaced(ls, positions, n) ==
  IF n = 0 THEN [layers |-> ls, added |-> 0]
  ELSE LET before == LasersPlaced(ls, positions, n - 1)
           r == PlaceHazardIfValid(before.layers, width, height,
                                   positions[n][1], positions[n][2], LASER_TRAP, 0)
       IN [layers |-> r.layers,
           added |-> before.added + (IF r.placed THEN 1 ELSE 0)]

\* _add_hazards: laser_positions
LaserPositions(w, h) ==
  <<<<10, h \div 2>>, <<w - 11, h \div 2>>, <<w \div 2, 5>>, <<w \div 2, h - 6>>>>

\* The while loop of _add_decorations has ended; _add_hazards up to its while
\* loop: the four laser traps.
AddLasers ==
  LET laser_positions == LaserPositions(gen.width, gen.height)
      r == LasersPlaced(layers, laser_positions, Len(laser_positions))
  IN /\ gen.pc = "neon"
     /\ ~(gen.decorations_added < 8 /\ gen.attempts < 20)
     /\ layers' = r.layers
     /\ gen' = [gen EXCEPT !.pc = "spikes", !.hazards_added = r.added,
                           !.spike_count = 0, !.attempts = 0]
     /\ UNCHANGED <<op, raised, dirty, rebuilds, readSince>>
     /\ GenFrame

\* One pass of the while loop of _add_hazards.
SpikeAttempt ==
  /\ gen.pc = "spikes"
  /\ gen.spike_count < 6 /\ gen.attempts < 30
  /\ IF RandInt(4, gen.width - 5) = {} \/ RandInt(4, gen.height - 5) = {}
       THEN /\ raised' = "ValueError"
            /\ gen' = [gen EXCEPT !.pc = "raised"]
            /\ UNCHANGED layers
       ELSE \E x \in RandInt(4, gen.width - 5), y \in RandInt(4, gen.height - 5) :
              LET r == PlaceHazardIfValid(layers, width, height, x, y, SPIKE_TRAP, 1)
              IN /\ raised' = "none"
                 /\ layers' = r.layers
                 /\ gen' = [gen EXCEPT
                              !.attempts = @ + 1,
                              !.spike_count = IF r.placed THEN @ + 1 ELSE @,
                              !.hazards_added = IF r.placed THEN @ + 1 ELSE @]
  /\ UNCHANGED <<op, dirty, rebuilds, readSince>>
  /\ GenFrame

\* place_door as the layers it leaves.
DoorPlaced(ls, x, y, door_type) ==
  LET door_config == GetDoorType(door_type)
  IN IF door_config = <<>> THEN ls
     ELSE PutTile(ls, width, height, SOLID, x, y,
                  TileById(DoorId(door_type), door_config[1].row, door_config[1].col))

\* The while loop of _add_hazards has ended; _add_doors, and the call returns.
AddDoors ==
  LET w == gen.width
      h == gen.height
      main == DoorPlaced(layers, w \div 2, h - 1, "standard")
      both == IF w > 20 THEN DoorPlaced(main, w - 1, h \div 2, "electronic") ELSE main
      wrote == \/ GetDoorType("standard") # <<>> /\ InBounds(width, height, w \div 2, h - 1)
               \/ /\ w > 20 /\ GetDoorType("electronic") # <<>>
                  /\ InBounds(width, height, w - 1, h \div 2)
  IN /\ gen.pc = "spikes"
     /\ ~(gen.spike_count < 6 /\ gen.attempts < 30)
     /\ layers' = both
     /\ dirty' = (IF wrote THEN TRUE ELSE dirty)
     /\ rebuilds' = (IF wrote THEN 0 ELSE rebuilds)
     /\ readSince' = (IF wrote THEN 0 ELSE readSince)
     /\ gen' = [gen EXCEPT !.pc = "done"]
     /\ UNCHANGED <<op, raised>>
     /\ GenFrame

\* A tilemap large enough for the smallest room that can be generated, with a
\* margin of one tile.
RoomMap == <<12, 10>>

\* A tilemap of the size of the smallest room that can be generated.
SameSizeMap == <<11, 9>>

\* Room sizes (width, height) from 1 x 1 up to one wide enough for two doors.
RoomArgs == {<<1, 1>>, <<10, 9>>, <<11, 6>>, <<11, 8>>, <<11, 9>>, <<21, 9>>}

InitRoom ==
  /\ \E m \in {<<MapWidth, MapHeight>>, RoomMap, SameSizeMap} : ConstructedAs(m[1], m[2])
  /\ door_types = SomeDoorTypes
  /\ file = NoFile
  /\ input_grid = <<>>
  /\ autotile_grid = <<>>
  /\ scan = NoScan
  /\ camera = <<>>
  /\ gen = IdleGenerator
  /\ NoRest

NextRoom ==
  \/ \E r \in RoomArgs : GenerateTestRoom(r[1], r[2])
  \/ ApplyWallsOverFloor
  \/ AddTerminals
  \/ NeonAttempt
  \/ AddLasers
  \/ SpikeAttempt
  \/ AddDoors

SpecRoom == InitRoom /\ [][NextRoom]_vars

\* C19: generate_test_room(width, height) terminates without raising for every
\* room size with width >= 1 and height >= 1, whatever the size of the tilemap:
\* the placement loops make at most 20 decoration and 30 spike attempts and
\* place fewer items when no valid position is found.
C19_RoomGeneratedWithoutRaising ==
  /\ raised = "none"
  /\ gen.pc = "neon" => gen.attempts <= 20
  /\ gen.pc = "spikes" => gen.attempts <= 30

\* In a room large enough for every random range the loops stop after at most
\* 20 and 30 attempts and the call returns.
C19_LargeRoomsTerminate ==
  /\ gen.width >= 11 /\ gen.height >= 9 => raised = "none"
  /\ gen.pc = "neon" => gen.attempts <= 20
  /\ gen.pc = "spikes" => gen.attempts <= 30

\* C21: the wall pass of generate_test_room, which runs after the floor pass,
\* leaves a SOLID-layer tile with tile_id WALL_BASIC and solid = true in every
\* in-bounds cell marked in the wall pattern, also where the floor pass had
\* written a tile, and changes no other cell of any layer.
C21_WallsForcedSolid ==
  [][gen.pc = "walls" /\ gen'.pc = "decorations" =>
       /\ \A y \in 1..height, x \in 1..width :
            IF y <= gen.height /\ x <= gen.width
                 /\ WallPattern(gen.width, gen.height, gen.pieces)[y][x]
              THEN /\ layers'[SOLID][y][x].tile_id = WALL_BASIC
                   /\ layers'[SOLID][y][x].solid
              ELSE layers'[SOLID][y][x] = layers[SOLID][y][x]
       /\ layers'[DECOR] = layers[DECOR]
       /\ layers'[HAZARD] = layers[HAZARD]]_vars

\* The wall pass has run and a cell of the floor pattern that is marked in
\* every wall pattern (the pillar) holds a wall tile.
C21_Witness ==
  /\ gen.pc = "decorations"
  /\ \E y \in 1..height, x \in 1..width :
       /\ y <= gen.height /\ x <= gen.width
       /\ FloorPattern(gen.width, gen.height)[y][x]
       /\ WallPattern(gen.width, gen.height, {})[y][x]
       /\ layers[SOLID][y][x].tile_id = WALL_BASIC
       /\ layers[SOLID][y][x].solid

\* ------------------------------------------- WorldManager.initialize_world
\* WorldManager.__init__: not initialized, no call in progress.
NewWorld == [world_initialized |-> FALSE, debug_mode |-> FALSE, pc |-> "idle"]

\* generate_test_room's default arguments.
DefaultRoom == <<60, 20>>

\* Mutant: the world is never taken as initialized.
NeverInitialized(w) == FALSE

\* if self.world_initialized: return
AlreadyInitialized(w) == w.world_initialized

\* The end of initialize_world: the camera is put at the centre of the map and
\* the flag is set.
WorldReady ==
  LET center_x == (width * TILE_SIZE) \div 2
      center_y == (height * TILE_SIZE) \div 2
  IN /\ camera' = [camera EXCEPT !.x = center_x * Scale, !.y = center_y * Scale,
                                 !.target_x = center_x * Scale,
                                 !.target_y = center_y * Scale]
     /\ world' = [world EXCEPT !.world_initialized = TRUE, !.pc = "idle"]

\* initialize_world(generate_test_room) up to its call of the generator; the
\* whole call when the world is already initialized or no room is asked for.
InitializeWorld(generate_test_room) ==
  /\ world.pc = "idle"
  /\ op' = Call("initialize_world", "", 0, 0, 0, 0, IF generate_test_room THEN 1 ELSE 0, "")
  /\ ret' = <<>>
  /\ raised' = "none"
  /\ IF AlreadyInitialized(world) THEN UNCHANGED <<camera, world>>
     ELSE IF generate_test_room
       THEN /\ world' = [world EXCEPT !.pc = "initializing"]
            /\ UNCHANGED camera
     ELSE WorldReady
  /\ UNCHANGED <<layers, nOps, gen, editor, frame, game>>
  /\ KeepTilemap /\ KeepAutotiling

\* initialize_world calls self.map_generator.generate_test_room().
InitializeGenerates ==
  /\ world.pc = "initializing"
  /\ GenerateTestRoom(DefaultRoom[1], DefaultRoom[2])

\* The generator has returned; initialize_world goes on to its end.
InitializeFinishes ==
  /\ world.pc = "initializing"
  /\ gen.pc = "done"
  /\ WorldReady
  /\ gen' = IdleGenerator
  /\ UNCHANGED <<layers, nOps, op, ret, raised, editor, frame, game>>
  /\ KeepTilemap /\ KeepAutotiling

\* WorldManager.update(dt, player_pos): the camera follows the player, without
\* level bounds.
WorldUpdate(player_x, player_y) ==
  /\ world.pc = "idle" /\ world.world_initialized
  /\ Update(player_x, player_y, 0, 0)

InitWorld ==
  /\ \E m \in {<<MapWidth, MapHeight>>, RoomMap} : ConstructedAs(m[1], m[2])
  /\ door_types = SomeDoorTypes
  /\ file = NoFile
  /\ input_grid = <<>>
  /\ autotile_grid = <<>>
  /\ scan = NoScan
  /\ camera \in {NewCamera(v[1], v[2]) : v \in Viewports}
  /\ gen = IdleGenerator
  /\ world = NewWorld
  /\ editor = <<>>
  /\ frame = <<>>
  /\ game = <<>>

NextWorld ==
  \/ \E g \in BOOLEAN : InitializeWorld(g)
  \/ InitializeGenerates
  \/ ApplyWallsOverFloor
  \/ AddTerminals
  \/ NeonAttempt
  \/ AddLasers
  \/ SpikeAttempt
  \/ AddDoors
  \/ InitializeFinishes
  \/ \E t \in TargetArgs : WorldUpdate(t[1], t[2])
  \/ /\ world.pc = "idle" /\ world.world_initialized
     /\ WriteTileById({SOLID, HAZARD}, {0}, {0}, {EMPTY, SPIKE_TRAP})
     /\ KeepOthers

SpecWorld == InitWorld /\ [][NextWorld]_vars

\* C22: once initialize_world has completed, a further initialize_world call,
\* with either value of generate_test_room, is a no-op: the tilemap layers, the
\* camera position and target and world_initialized are as before the call,
\* and nothing is raised.
C22_InitializeIdempotent ==
  [][world.world_initialized /\ op'.name = "initialize_world" =>
       /\ layers' = layers
       /\ camera' = camera
       /\ world' = world
       /\ world'.world_initialized
       /\ raised' = "none"]_vars

\* initialize_world was called again on an initialized world whose camera had
\* left the centre and whose tilemap had been written to since.
C22_Witness ==
  /\ world.world_initialized
  /\ op.name = "initialize_world"
  /\ camera.x # ((width * TILE_SIZE) \div 2) * Scale
  /\ layers[HAZARD][1][1].tile_id = SPIKE_TRAP

\* ------------------------------------------------------------ rendering
\* TilemapEditor.__init__
NewEditor ==
  [editor_active |-> FALSE, current_layer |-> SOLID, current_tile_id |-> GROUND_BASE,
   brush_size |-> 1, mouse_tile_x |-> 0, mouse_tile_y |-> 0,
   is_painting |-> FALSE, is_erasing |-> FALSE]

\* The renderer's side of the Tilemap and the last frame: the atlas size
\* (rows, cols) of the SpritesheetLoader, Tilemap.debug_mode, and for the last
\* render call the surface size, the camera offset, the cells it read and the
\* draw calls it made, in order.
NewFrame(atlas) ==
  [atlas |-> atlas, debug_mode |-> FALSE, surface |-> <<0, 0>>, offset |-> <<0, 0>>,
   visited |-> {}, log |-> <<>>]

\* Tilemap.render: start = max(0, offset // TILE_SIZE) along one axis.
VisibleStart(offset) == Max(0, offset \div TILE_SIZE)

\* Mutant: no culling at the far side.
VisibleEndWholeGrid(offset, screen, size) == size

\* Tilemap.render: end = min(size, (offset + screen) // TILE_SIZE + 2) along
\* one axis.
VisibleEnd(offset, screen, size) == Min(size, (offset + screen) \div TILE_SIZE + 2)

\* range(start, end)
VisibleRange(offset, screen, size) ==
  VisibleStart(offset)..(VisibleEnd(offset, screen, size) - 1)

\* Mutant: hazards are drawn first.
layer_order_hazard_first == <<HAZARD, SOLID, DECOR>>

\* Tilemap.render: layer_order
layer_order == <<SOLID, DECOR, HAZARD>>

\* SpritesheetLoader.get_tile(row, col) returns a sprite.
HasSprite(atlas, row, col) == 0 <= row /\ row < atlas[1] /\ 0 <= col /\ col < atlas[2]

\* The draw call of one tile.
Blit(layer, x, y, tile_id) ==
  [what |-> "tile", layer |-> layer, x |-> x, y |-> y, tile_id |-> tile_id]

\* A draw call that is not a tile: the parallax background, the debug grid of
\* the tilemap, the editor overlay, the debug text of the world manager.
Draw(what) == [what |-> what, layer |-> "", x |-> 0, y |-> 0, tile_id |-> 0]

\* Tilemap.render, the loops over y and x for one layer: the blits of the
\* tiles that are not EMPTY and have a sprite, row by row.
LayerBlits(ls, atlas, layer, x0, xs, y0, ys) ==
  LET nx == Cardinality(xs)
      X(k) == x0 + ((k - 1) % nx)
      Y(k) == y0 + ((k - 1) \div nx)
      cells == [k \in 1..(nx * Cardinality(ys)) |->
                  Blit(layer, X(k), Y(k), ls[layer][Y(k) + 1][X(k) + 1].tile_id)]
      Drawn(b) == /\ b.tile_id # EMPTY
                  /\ HasSprite(atlas, ls[layer][b.y + 1][b.x + 1].sprite_row,
                               ls[layer][b.y + 1][b.x + 1].sprite_col)
  IN IF xs = {} \/ ys = {} THEN <<>> ELSE SelectSeq(cells, Drawn)

\* Tilemap.render(surface, camera_offset) as the frame it leaves: the three
\* layers in layer_order, then _render_debug when debug_mode is set.
render(f, ls, w, h, surface, camera_offset) ==
  LET x0 == VisibleStart(camera_offset[1])
      y0 == VisibleStart(camera_offset[2])
      xs == VisibleRange(camera_offset[1], surface[1], w)
      ys == VisibleRange(camera_offset[2], surface[2], h)
      tiles == LayerBlits(ls, f.atlas, layer_order[1], x0, xs, y0, ys)
               \o LayerBlits(ls, f.atlas, layer_order[2], x0, xs, y0, ys)
               \o LayerBlits(ls, f.atlas, layer_order[3], x0, xs, y0, ys)
  IN [f EXCEPT !.surface = surface, !.offset = camera_offset,
               !.visited = xs \X ys,
               !.log = IF f.debug_mode THEN Append(tiles, Draw("tilemap_debug"))
                       ELSE tiles]

RenderFrame ==
  /\ ret' = <<>>
  /\ raised' = "none"
  /\ UNCHANGED <<layers, nOps, world, editor, game>>
  /\ KeepTilemap /\ KeepAutotiling /\ KeepCamera /\ KeepGenerator

\* Tilemap.render(surface, camera_offset)
Render(surface, camera_offset) ==
  /\ op' = Call("render", "", camera_offset[1], camera_offset[2],
                surface[1], surface[2], 0, "")
  /\ frame' = render(frame, layers, width, height, surface, camera_offset)
  /\ RenderFrame

\* WorldManager.render(surface): the parallax background, the tilemap at the
\* camera's offset (int(x), int(y)), the editor UI, then the debug text.
WorldRender(surface) ==
  LET camera_offset == <<PyInt(camera.x), PyInt(camera.y)>>
      tilemap == render(frame, layers, width, height, surface, camera_offset)
      upto_ui == <<Draw("parallax")>> \o tilemap.log \o <<Draw("editor")>>
  IN /\ op' = Call("WorldManager.render", "", 0, 0, surface[1], surface[2], 0, "")
     /\ frame' = [tilemap EXCEPT !.log = IF world.debug_mode
                                           THEN Append(upto_ui, Draw("world_debug"))
                                           ELSE upto_ui]
     /\ RenderFrame

\* TilemapEditor._toggle_debug_display (F1), as far as rendering sees it.
ToggleDebugDisplay ==
  /\ frame' = [frame EXCEPT !.debug_mode = ~@]
  /\ op' = Call("_toggle_debug_display", "", 0, 0, 0, 0, 0, "")
  /\ ret' = <<>>
  /\ raised' = "none"
  /\ UNCHANGED <<layers, nOps, world, editor, game>>
  /\ KeepTilemap /\ KeepAutotiling /\ KeepCamera /\ KeepGenerator

\* WorldManager._toggle_debug_mode (F10)
ToggleDebugMode ==
  /\ world' = [world EXCEPT !.debug_mode = ~@]
  /\ op' = Call("_toggle_debug_mode", "", 0, 0, 0, 0, 0, "")
  /\ ret' = <<>>
  /\ raised' = "none"
  /\ UNCHANGED <<layers, nOps, frame, editor, game>>
  /\ KeepTilemap /\ KeepAutotiling /\ KeepCamera /\ KeepGenerator

\* A map wider and higher than the viewports.
RenderMap == <<MapWidth + 5, MapHeight + 3>>

\* A map that was painted: ground everywhere but in column 1, one wall whose
\* autotile sprite lies beyond a 10 x 10 atlas, terminals in the even columns
\* and spikes in the last row.
PaintedLayers(w, h) ==
  [l \in TileLayer |-> [y \in 1..h |-> [x \in 1..w |->
     IF l = SOLID
       THEN (IF x = 1 /\ y = 1 THEN TileById(WALL_BASIC, 12, 14)
             ELSE IF x = 2 THEN EmptyTile ELSE TileById(GROUND_BASE, 0, 0))
     ELSE IF l = DECOR
       THEN (IF x % 2 = 0 THEN TileById(TERMINAL, 5, 3) ELSE EmptyTile)
     ELSE (IF y = h THEN TileById(SPIKE_TRAP, 7, 1) ELSE EmptyTile)]]]

\* Atlas sizes: the 320 x 320 fallback sheet and a sheet of 16 x 16 tiles.
AtlasSizes == {<<10, 10>>, <<16, 16>>}

\* Surfaces in pixels: one tile, less than a tile high, two tiles wide.
SurfaceArgs == {<<TILE_SIZE, TILE_SIZE>>, <<TILE_SIZE + 8, TILE_SIZE - 12>>,
                <<2 * TILE_SIZE, TILE_SIZE>>}

\* Camera offsets in pixels on a map of w x h tiles: left of and above the map,
\* around its first tile edges, at its last tiles and beyond it.
OffsetsFor(w, h) ==
  {<<-TILE_SIZE - 8, -1>>, <<-1, 0>>, <<0, 0>>, <<TILE_SIZE - 1, TILE_SIZE>>,
   <<TILE_SIZE, -TILE_SIZE - 8>>, <<(w - 1) * TILE_SIZE - 1, (h - 1) * TILE_SIZE>>,
   <<0, h * TILE_SIZE + 5>>, <<w * TILE_SIZE + 5, 0>>}

InitRender ==
  /\ \E m \in {<<MapWidth, MapHeight>>, RenderMap} :
       /\ width = m[1]
       /\ height = m[2]
       /\ layers \in {NewLayers(m[1], m[2]), PaintedLayers(m[1], m[2])}
  /\ collision_rects = <<>>
  /\ hazard_rects = <<>>
  /\ dirty = TRUE
  /\ op = NoCall
  /\ ret = <<>>
  /\ raised = "none"
  /\ nOps = 0
  /\ rebuilds = 0
  /\ readSince = 0
  /\ saved = <<>>
  /\ door_types = NoDoorTypes
  /\ file = NoFile
  /\ input_grid = <<>>
  /\ autotile_grid = <<>>
  /\ scan = NoScan
  /\ camera = NewCamera(2 * TILE_SIZE, TILE_SIZE)
  /\ gen = IdleGenerator
  /\ world = NewWorld
  /\ editor = NewEditor
  /\ frame \in {NewFrame(a) : a \in AtlasSizes}
  /\ game = <<>>

NextRender ==
  \/ \E s \in SurfaceArgs, o \in OffsetsFor(width, height) : Render(s, o)
  \/ \E s \in SurfaceArgs : WorldRender(s)
  \/ ToggleDebugDisplay
  \/ ToggleDebugMode
  \/ \E p \in {<<-1, 0>>, <<TILE_SIZE, TILE_SIZE - 1>>} : SetPosition(p[1], p[2])

SpecRender == InitRender /\ [][NextRender]_vars

\* The last step was a render call.
Rendered == op.name \in {"render", "WorldManager.render"}

\* The viewport in world pixels.
Viewport == Rect(frame.offset[1], frame.offset[2], frame.surface[1], frame.surface[2])

\* The columns and rows the render call went through.
VisitedColumns == {c[1] : c \in frame.visited}

VisitedRows == {c[2] : c \in frame.visited}

\* The render call read only cells of the grid, read every tile of the grid
\* that meets the viewport, and went no further than 2 tiles past the tile
\* range of the viewport.
CulledToViewport ==
  /\ \A c \in frame.visited : InBounds(width, height, c[1], c[2])
  /\ \A x \in 0..(width - 1), y \in 0..(height - 1) :
       ColliderRect(TileRect(x, y), Viewport) => <<x, y>> \in frame.visited
  /\ \A c \in frame.visited :
       /\ Viewport.x \div TILE_SIZE - 2 <= c[1]
       /\ c[1] <= (Viewport.x + Viewport.w - 1) \div TILE_SIZE + 2
       /\ Viewport.y \div TILE_SIZE - 2 <= c[2]
       /\ c[2] <= (Viewport.y + Viewport.h - 1) \div TILE_SIZE + 2

\* C23 as stated: for every camera offset and viewport size Tilemap.render
\* reads only cells of the grid, visits every in-grid tile whose rectangle meets
\* the viewport, goes no more than 2 tiles beyond the viewport's tile range, and
\* never goes through the full grid when the map is larger than the viewport.
C23_NeverFullGrid ==
  Rendered =>
    /\ CulledToViewport
    /\ width * TILE_SIZE > Viewport.w /\ height * TILE_SIZE > Viewport.h =>
         frame.visited # (0..(width - 1)) \X (0..(height - 1))

\* C23 amended: as C23, but the full grid is left out only along an axis on
\* which the map has over 3 tiles more than fit into the viewport; a map up
\* to 3 tiles larger can be visited whole.
C23_CulledRender ==
  Rendered =>
    /\ CulledToViewport
    /\ Cardinality(VisitedColumns) <= Viewport.w \div TILE_SIZE + 3
    /\ Cardinality(VisitedRows) <= Viewport.h \div TILE_SIZE + 3
    /\ width > Viewport.w \div TILE_SIZE + 3 => VisitedColumns # 0..(width - 1)
    /\ height > Viewport.h \div TILE_SIZE + 3 => VisitedRows # 0..(height - 1)

\* A render call at a negative offset on the larger map visited some columns
\* but not all of them, 2 tiles past the viewport included.
C23_Witness ==
  /\ Rendered
  /\ width = RenderMap[1]
  /\ frame.offset[1] < 0
  /\ frame.visited # {}
  /\ (Viewport.x + Viewport.w - 1) \div TILE_SIZE + 2 \in VisitedColumns
  /\ VisitedColumns # 0..(width - 1)

\* The place of a draw call in the fixed order.
Rank(d) ==
  IF d.what = "parallax" THEN 0
  ELSE IF d.what = "tile" THEN (IF d.layer = SOLID THEN 1 ELSE IF d.layer = DECOR THEN 2 ELSE 3)
  ELSE IF d.what = "tilemap_debug" THEN 4
  ELSE IF d.what = "editor" THEN 5
  ELSE 6

\* C24: the draw order is fixed in every frame. WorldManager.render draws the
\* parallax background, then the tilemap, then the editor overlay; within
\* Tilemap.render every visible SOLID tile is drawn before any DECOR tile and
\* every DECOR tile before any HAZARD tile, and EMPTY tiles are skipped.
C24_DrawOrder ==
  Rendered =>
    /\ \A i, j \in 1..Len(frame.log) : i < j => Rank(frame.log[i]) <= Rank(frame.log[j])
    /\ \A i \in 1..Len(frame.log) :
         frame.log[i].what = "tile" => frame.log[i].tile_id # EMPTY
    /\ \A c \in frame.visited, layer \in TileLayer :
         LET tile == layers[layer][c[2] + 1][c[1] + 1]
         IN tile.tile_id # EMPTY /\ HasSprite(frame.atlas, tile.sprite_row, tile.sprite_col)
              => \E i \in 1..Len(frame.log) :
                   frame.log[i] = Blit(layer, c[1], c[2], tile.tile_id)
    /\ op.name = "WorldManager.render" =>
         /\ frame.log[1] = Draw("parallax")
         /\ \E i \in 1..Len(frame.log) : frame.log[i] = Draw("editor")

\* WorldManager.render drew tiles of all three layers between the parallax
\* background and the editor overlay, having skipped an EMPTY tile.
C24_Witness ==
  /\ op.name = "WorldManager.render"
  /\ \A layer \in TileLayer :
       \E i \in 1..Len(frame.log) : frame.log[i].what = "tile" /\ frame.log[i].layer = layer
  /\ \E c \in frame.visited : layers[SOLID][c[2] + 1][c[1] + 1].tile_id = EMPTY
  /\ frame.log[Len(frame.log)].what = "world_debug"

\* C25: generate_test_room on a fresh tilemap of the size of the room places
\* the 4 laser traps at (10, h//2), (w-11, h//2), (w//2, 5) and (w//2, h-6) in
\* the HAZARD layer, so that get_hazard_rects() is not empty after generation.
C25_LasersPlaced ==
  gen.pc = "done" /\ width = gen.width /\ height = gen.height =>
    /\ \A i \in 1..4 :
         LET p == LaserPositions(gen.width, gen.height)[i]
         IN layers[HAZARD][p[2] + 1][p[1] + 1].tile_id = LASER_TRAP
    /\ Rebuild(layers, width, height).hazard_rects # <<>>

\* What the code does instead: the room fills the map with floor and wall
\* tiles, all solid, so every laser and spike position is rejected and the
\* HAZARD layer stays empty.
C25_NoHazardInFullRoom ==
  gen.pc = "done" /\ width = gen.width /\ height = gen.height =>
    /\ layers[HAZARD] = NewGrid(width, height)
    /\ gen.hazards_added = 0

\* C26: each tile group owns its band of atlas rows: over the canonical
\* indices 0..46, no (row, col) pair that get_tile_coords returns for GROUND is
\* also returned for WALLS.
C26_BandsDisjoint ==
  op.name = "get_tile_coords" /\ op.x = GROUND /\ op.id \in AutotileIndices =>
    \A i \in AutotileIndices : get_tile_coords(WALLS, i) # ret

\* What the code gives instead: the GROUND indices from 16 on lie in rows 10 and
\* 11, on the coordinates of the WALLS index 16 lower.
C26_BandsOverlap ==
  op.name = "get_tile_coords" /\ op.x = GROUND /\ op.id \in 16..46 =>
    get_tile_coords(WALLS, op.id - 16) = ret

\* ---------------------------------------------------------- TilemapEditor
\* The editor handles an event only between two calls of the generator.
EditorIdle == gen.pc \in {"idle", "returned"}

EditorFrame ==
  /\ ret' = <<>>
  /\ UNCHANGED <<world, frame, game>>
  /\ KeepAutotiling /\ KeepCamera

\* An event that leaves the tilemap alone.
EditorOnly ==
  /\ raised' = "none"
  /\ nOps' = nOps + 1
  /\ UNCHANGED <<layers, gen>>
  /\ KeepTilemap
  /\ EditorFrame

\* TilemapEditor._get_sprite_coords_for_tile
SpriteCoordsForTile(tile_id) ==
  IF tile_id = GROUND_WORN THEN <<1, 0>>
  ELSE IF tile_id = WALL_BASIC THEN <<2, 0>>
  ELSE IF tile_id = WALL_REINFORCED THEN <<3, 0>>
  ELSE IF tile_id = STAIRS THEN <<4, 0>>
  ELSE IF tile_id = PIPES THEN <<4, 1>>
  ELSE IF tile_id = DOOR_STANDARD THEN <<5, 0>>
  ELSE IF tile_id = DOOR_REINFORCED THEN <<5, 1>>
  ELSE IF tile_id = DOOR_ELECTRONIC THEN <<5, 2>>
  ELSE IF tile_id = TERMINAL THEN <<5, 3>>
  ELSE IF tile_id = DECAL THEN <<6, 0>>
  ELSE IF tile_id = LASER_TRAP THEN <<7, 0>>
  ELSE IF tile_id = SPIKE_TRAP THEN <<7, 1>>
  ELSE IF tile_id = NEON_SIGN THEN <<6, 1>>
  ELSE <<0, 0>>

\* range(-self.brush_size//2, self.brush_size//2 + 1): the unary minus binds
\* before the floor division.
BrushOffsets(brush_size) == ((-brush_size) \div 2)..(brush_size \div 2)

\* The cells the brush loops of _paint_tile and _erase_tile write to.
BrushCells(ed) ==
  {c \in {<<ed.mouse_tile_x + dx, ed.mouse_tile_y + dy>> :
            dx \in BrushOffsets(ed.brush_size), dy \in BrushOffsets(ed.brush_size)} :
     InBounds(width, height, c[1], c[2])}

\* set_tile_by_id(layer, x, y, tile_id, row, col) on every cell of `cells`,
\* all of them in bounds.
BrushWrites(layer, cells, tile) ==
  /\ layers' = [layers EXCEPT ![layer] =
                  [y \in 1..height |-> [x \in 1..width |->
                     IF <<x - 1, y - 1>> \in cells THEN tile ELSE layers[layer][y][x]]]]
  /\ dirty' = (IF cells # {} /\ MarksDirty(layer) THEN TRUE ELSE dirty)
  /\ rebuilds' = (IF cells # {} /\ layer = SOLID THEN 0 ELSE rebuilds)
  /\ readSince' = (IF cells # {} /\ layer = SOLID THEN 0 ELSE readSince)

\* _paint_tile (erase = FALSE) and _erase_tile (erase = TRUE), called with the
\* editor as the event handler has just left it.
BrushStroke(ed, erase) ==
  IF ~ed.editor_active \/ ~InBounds(width, height, ed.mouse_tile_x, ed.mouse_tile_y)
    THEN UNCHANGED <<layers, dirty, rebuilds, readSince>>
  ELSE IF erase
    THEN BrushWrites(ed.current_layer, BrushCells(ed), TileById(EMPTY, 0, 0))
  ELSE BrushWrites(ed.current_layer, BrushCells(ed),
                   TileById(ed.current_tile_id,
                            SpriteCoordsForTile(ed.current_tile_id)[1],
                            SpriteCoordsForTile(ed.current_tile_id)[2]))

MouseFrame ==
  /\ raised' = "none"
  /\ nOps' = nOps + 1
  /\ UNCHANGED gen
  /\ KeepSize /\ KeepCache /\ KeepDisk
  /\ EditorFrame

\* handle_input, MOUSEBUTTONDOWN with button 1 (left), 2 or 3 (right)
MouseButtonDown(button) ==
  /\ EditorIdle
  /\ op' = Call("MOUSEBUTTONDOWN", "", 0, 0, 0, 0, button, "")
  /\ IF editor.editor_active /\ button = 1
       THEN /\ editor' = [editor EXCEPT !.is_painting = TRUE]
            /\ BrushStroke(editor, FALSE)
     ELSE IF editor.editor_active /\ button = 3
       THEN /\ editor' = [editor EXCEPT !.is_erasing = TRUE]
            /\ BrushStroke(editor, TRUE)
     ELSE UNCHANGED <<editor, layers, dirty, rebuilds, readSince>>
  /\ MouseFrame

\* handle_input, MOUSEBUTTONUP
MouseButtonUp(button) ==
  /\ EditorIdle
  /\ op' = Call("MOUSEBUTTONUP", "", 0, 0, 0, 0, button, "")
  /\ editor' = [editor EXCEPT
                  !.is_painting = IF button = 1 THEN FALSE ELSE @,
                  !.is_erasing = IF button # 1 /\ button = 3 THEN FALSE ELSE @]
  /\ EditorOnly

\* handle_input, MOUSEMOTION at pixel pos: _update_mouse_position, then the
\* stroke that is under way.
MouseMotion(pos) ==
  LET moved == [editor EXCEPT !.mouse_tile_x = pos[1] \div TILE_SIZE,
                              !.mouse_tile_y = pos[2] \div TILE_SIZE]
  IN /\ EditorIdle
     /\ op' = Call("MOUSEMOTION", "", pos[1], pos[2], 0, 0, 0, "")
     /\ IF editor.editor_active
          THEN /\ editor' = moved
               /\ IF editor.is_painting THEN BrushStroke(moved, FALSE)
                  ELSE IF editor.is_erasing THEN BrushStroke(moved, TRUE)
                  ELSE UNCHANGED <<layers, dirty, rebuilds, readSince>>
          ELSE UNCHANGED <<editor, layers, dirty, rebuilds, readSince>>
     /\ MouseFrame

\* _toggle_editor_mode (F4)
ToggleEditorMode ==
  /\ EditorIdle
  /\ op' = Call("K_F4", "", 0, 0, 0, 0, 0, "")
  /\ editor' = [editor EXCEPT !.editor_active = ~@]
  /\ EditorOnly

\* _cycle_layer (Tab)
CycleLayer ==
  /\ EditorIdle
  /\ op' = Call("K_TAB", "", 0, 0, 0, 0, 0, "")
  /\ editor' = [editor EXCEPT !.current_layer =
                  IF @ = SOLID THEN DECOR ELSE IF @ = DECOR THEN HAZARD ELSE SOLID]
  /\ EditorOnly

\* _select_tile_type(tile_number) (keys 1 to 9)
SelectTileType(tile_number) ==
  LET tile_types == <<EMPTY, GROUND_BASE, GROUND_WORN, WALL_BASIC, WALL_REINFORCED,
                      DOOR_STANDARD, TERMINAL, LASER_TRAP, SPIKE_TRAP>>
  IN /\ EditorIdle
     /\ op' = Call("K_1", "", 0, 0, 0, 0, tile_number, "")
     /\ editor' = IF 0 <= tile_number /\ tile_number < Len(tile_types)
                    THEN [editor EXCEPT !.current_tile_id = tile_types[tile_number + 1]]
                    ELSE editor
     /\ EditorOnly

\* set_brush_size(size)
SetBrushSize(size) ==
  /\ EditorIdle
  /\ op' = Call("set_brush_size", "", 0, 0, size, size, 0, "")
  /\ editor' = [editor EXCEPT !.brush_size = Max(1, Min(5, size))]
  /\ EditorOnly

\* _clear_map (Ctrl+C): set_tile_by_id(layer, x, y, EMPTY, 0, 0) on every cell.
ClearMap ==
  /\ EditorIdle
  /\ op' = Call("K_c", "", 0, 0, 0, 0, 0, "")
  /\ layers' = [l \in TileLayer |-> [y \in 1..height |-> [x \in 1..width |->
                  TileById(EMPTY, 0, 0)]]]
  /\ dirty' = (IF width > 0 /\ height > 0 THEN TRUE ELSE dirty)
  /\ rebuilds' = (IF width > 0 /\ height > 0 THEN 0 ELSE rebuilds)
  /\ readSince' = (IF width > 0 /\ height > 0 THEN 0 ELSE readSince)
  /\ UNCHANGED editor
  /\ MouseFrame

\* _save_map (F2)
EditorSaveMap ==
  /\ EditorIdle
  /\ SaveToJson
  /\ UNCHANGED <<editor, gen>>
  /\ KeepAutotiling /\ KeepCamera /\ UNCHANGED <<world, frame, game>>

\* _load_map (F3): load_from_json when the file exists.
EditorLoadMap ==
  /\ EditorIdle
  /\ IF file.kind # "missing" THEN LoadFromJson
     ELSE /\ op' = Call("K_F3", "", 0, 0, 0, 0, 0, "")
          /\ ret' = <<>>
          /\ raised' = "none"
          /\ UNCHANGED <<layers, nOps>>
          /\ KeepTilemap
  /\ UNCHANGED <<editor, gen>>
  /\ KeepAutotiling /\ KeepCamera /\ UNCHANGED <<world, frame, game>>

\* _generate_test_room (F5) up to the first steps of the generator
EditorGenerateTestRoom ==
  /\ gen.pc = "idle"
  /\ GenerateTestRoom(DefaultRoom[1], DefaultRoom[2])

\* The generator has returned to _generate_test_room.
EditorGenerateReturns ==
  /\ gen.pc = "done"
  /\ gen' = [IdleGenerator EXCEPT !.pc = "returned"]
  /\ nOps' = nOps + 1
  /\ UNCHANGED <<op, ret, raised, layers, dirty, rebuilds, readSince>>
  /\ KeepSize /\ KeepCache /\ KeepDisk /\ KeepAutotiling /\ KeepCamera /\ KeepRest

\* The editor's map, with cells away from every edge.
EditorMap == <<MapWidth + 4, MapHeight + 4>>

\* Mouse positions in pixels: inside tile (1, 1), inside the last tile, and
\* right of the map.
MouseArgs(w, h) ==
  {<<TILE_SIZE + 8, TILE_SIZE + 8>>, <<w * TILE_SIZE - 1, h * TILE_SIZE - 1>>,
   <<w * TILE_SIZE, 0>>}

\* test_map.json as an earlier session saved it.
EarlierFile(w, h) == [kind |-> "json", data |-> SaveData(PaintedLayers(w, h), w, h)]

\* A TilemapEditor on a new or painted Tilemap, with or without a map file.
InitEditor ==
  /\ width = EditorMap[1]
  /\ height = EditorMap[2]
  /\ layers \in {NewLayers(width, height), PaintedLayers(width, height)}
  /\ collision_rects = <<>>
  /\ hazard_rects = <<>>
  /\ dirty = TRUE
  /\ op = NoCall
  /\ ret = <<>>
  /\ raised = "none"
  /\ nOps = 0
  /\ rebuilds = 0
  /\ readSince = 0
  /\ saved = <<>>
  /\ door_types = NoDoorTypes
  /\ file \in {NoFile, EarlierFile(width, height)}
  /\ input_grid = <<>>
  /\ autotile_grid = <<>>
  /\ scan = NoScan
  /\ camera = <<>>
  /\ gen = IdleGenerator
  /\ world = <<>>
  /\ editor = NewEditor
  /\ frame = NewFrame(<<10, 10>>)
  /\ game = <<>>

\* The key events of handle_input and the mouse, MaxOps events a run.
NextEditor ==
  \/ nOps < MaxOps /\ EditorSaveMap
  \/ nOps < MaxOps /\ EditorLoadMap
  \/ nOps < MaxOps /\ ToggleEditorMode
  \/ nOps < MaxOps /\ EditorGenerateTestRoom
  \/ ApplyWallsOverFloor
  \/ AddTerminals
  \/ NeonAttempt
  \/ AddLasers
  \/ SpikeAttempt
  \/ AddDoors
  \/ EditorGenerateReturns
  \/ nOps < MaxOps /\ ClearMap
  \/ nOps < MaxOps /\ \E b \in {1, 3} : MouseButtonDown(b)
  \/ nOps < MaxOps /\ \E pos \in MouseArgs(width, height) : MouseMotion(pos)

SpecEditor == InitEditor /\ [][NextEditor]_vars

\* The events of a brush stroke.
MaxEvents == MaxOps + 2

InitBrush == InitEditor /\ file = NoFile

NextBrush ==
  \/ nOps < MaxEvents /\ EditorIdle /\ ToggleDebugDisplay
  \/ nOps < MaxEvents /\ ToggleEditorMode
  \/ nOps < MaxEvents /\ CycleLayer
  \/ nOps < MaxEvents /\ \E n \in {3, 9} : SelectTileType(n)
  \/ nOps < MaxEvents /\ \E b \in {1, 2, 3} : MouseButtonDown(b)
  \/ nOps < MaxEvents /\ \E b \in {1, 3} : MouseButtonUp(b)
  \/ nOps < MaxEvents /\ \E pos \in MouseArgs(width, height) : MouseMotion(pos)
  \/ nOps < MaxEvents /\ \E size \in {0, 2, 9} : SetBrushSize(size)

SpecBrush == InitBrush /\ [][NextBrush]_vars

\* The cells of `layer` a step changes.
ChangedCells(layer) ==
  {c \in (0..(width - 1)) \X (0..(height - 1)) :
     layers'[layer][c[2] + 1][c[1] + 1] # layers[layer][c[2] + 1][c[1] + 1]}

\* C27: while editor_active is false, no event handled by
\* TilemapEditor.handle_input (mouse button, mouse motion or key press) changes
\* any tile of the tilemap.
C27_NoEditWhileOff ==
  [][~editor.editor_active /\ ~editor'.editor_active => layers' = layers]_vars

\* The part of C27 the code keeps: with the editor off, no mouse event
\* changes a tile.
C27_MouseGuarded ==
  [][(~editor.editor_active
      /\ op'.name \in {"MOUSEBUTTONDOWN", "MOUSEBUTTONUP", "MOUSEMOTION"})
     => layers' = layers]_vars

\* A key press has changed the tiles of a tilemap whose editor is off.
C27_KeyEditsWhileOff ==
  /\ ~editor.editor_active
  /\ op.name \in {"K_c", "load_from_json", "generate_test_room"}
  /\ layers # NewLayers(width, height)
  /\ layers # PaintedLayers(width, height)

\* The step is a paint or an erase at the editor's mouse tile.
IsStroke ==
  /\ op'.name \in {"MOUSEBUTTONDOWN", "MOUSEMOTION"}
  /\ editor'.editor_active
  /\ InBounds(width, height, editor'.mouse_tile_x, editor'.mouse_tile_y)
  /\ IF op'.name = "MOUSEBUTTONDOWN" THEN op'.id \in {1, 3}
     ELSE editor'.is_painting \/ editor'.is_erasing

\* C28: a paint or an erase with brush_size n (1 <= n <= 5) at an in-bounds
\* mouse tile changes at most n x n cells of the current layer, exactly the one
\* cell under the mouse for n = 1; the other layers are untouched.
C28_BrushCoversNxN ==
  [][IsStroke =>
       /\ Cardinality(ChangedCells(editor'.current_layer))
            <= editor'.brush_size * editor'.brush_size
       /\ editor'.brush_size = 1 =>
            ChangedCells(editor'.current_layer)
              \subseteq {<<editor'.mouse_tile_x, editor'.mouse_tile_y>>}
       /\ \A l \in TileLayer \ {editor'.current_layer} : layers'[l] = layers[l]]_vars

\* What the brush loops do: the cells changed lie in the square of side
\* brush_size + 1 whose last cell is brush_size \div 2 right of and below the
\* mouse tile, and the other layers are untouched.
C28_BrushCoversSquarePlusOne ==
  [][IsStroke =>
       /\ \A c \in ChangedCells(editor'.current_layer) :
            /\ c[1] - editor'.mouse_tile_x \in BrushOffsets(editor'.brush_size)
            /\ c[2] - editor'.mouse_tile_y \in BrushOffsets(editor'.brush_size)
       /\ Cardinality(BrushOffsets(editor'.brush_size)) = editor'.brush_size + 1
       /\ \A l \in TileLayer \ {editor'.current_layer} : layers'[l] = layers[l]]_vars

\* A click with the 1 x 1 brush at tile (1, 1) of an empty map has painted the
\* four cells (0, 0) to (1, 1).
C28_OneByOnePaintsFour ==
  /\ op.name = "MOUSEBUTTONDOWN"
  /\ editor.editor_active /\ editor.brush_size = 1
  /\ editor.mouse_tile_x = 1 /\ editor.mouse_tile_y = 1
  /\ Cardinality({c \in (0..1) \X (0..1) :
                    layers[SOLID][c[2] + 1][c[1] + 1].tile_id = GROUND_BASE}) = 4
  /\ layers[SOLID][3][3].tile_id = EMPTY

\* ------------------------------------------------- GameEngine and its states
SCREEN_WIDTH == 1280
SCREEN_HEIGHT == 720
HUD_HEIGHT == 80
PLAYER_MAX_HEALTH == 100

\* Player.__init__ at (x, y)
NewPlayer(x, y) == [x |-> x, y |-> y, health |-> PLAYER_MAX_HEALTH]

\* EnemyStandard.__init__ at (x, y)
NewEnemy(x, y) == [x |-> x, y |-> y, health |-> 60]

\* PlayingState._spawn_enemies: the six enemies it appends.
enemy_spawns ==
  <<NewEnemy(10 * 32, 8 * 32), NewEnemy(50 * 32, 12 * 32), NewEnemy(25 * 32, 5 * 32),
    NewEnemy(35 * 32, 15 * 32), NewEnemy(15 * 32, 12 * 32), NewEnemy(45 * 32, 8 * 32)>>

\* GameEngine.__init__: the four states are built once, PlayingState without
\* player, enemies or world, and the engine enters the menu. `pc` is the
\* position inside PlayingState.enter; `at_pause` records the game as it was at
\* the last change to PAUSED and `resumed` that the last enter was a resume.
NewGame ==
  [current |-> "MENU", pc |-> "idle", player |-> <<>>, enemies |-> <<>>,
   at_pause |-> <<>>, resumed |-> FALSE]

\* The game a pause interrupts: player, enemies, tilemap contents and camera.
GameNow == [player |-> game.player, enemies |-> game.enemies, layers |-> layers,
            camera |-> camera]

GameFrame ==
  /\ ret' = <<>>
  /\ raised' = "none"
  /\ UNCHANGED frame
  /\ KeepSize /\ KeepDisk /\ KeepAutotiling

\* GameEngine.change_state(PLAYING): the current state's exit, then
\* PlayingState.enter up to its new WorldManager (a new Tilemap, Camera,
\* TilemapEditor and MapGenerator).
ChangeToPlaying(resumed) ==
  /\ game' = [game EXCEPT !.current = "PLAYING", !.pc = "enter", !.resumed = resumed]
  /\ layers' = NewLayers(width, height)
  /\ collision_rects' = <<>>
  /\ hazard_rects' = <<>>
  /\ dirty' = TRUE
  /\ rebuilds' = 0
  /\ readSince' = 0
  /\ saved' = saved
  /\ camera' = NewCamera(SCREEN_WIDTH, SCREEN_HEIGHT - HUD_HEIGHT)
  /\ world' = NewWorld
  /\ editor' = NewEditor
  /\ gen' = IdleGenerator
  /\ UNCHANGED nOps
  /\ GameFrame

\* MenuState._handle_menu_selection, NEW GAME
MenuNewGame ==
  /\ game.current = "MENU"
  /\ op' = Call("NEW GAME", "", 0, 0, 0, 0, 0, "")
  /\ ChangeToPlaying(FALSE)

\* PlayingState.enter is under way, its WorldManager built.
Entering == game.current = "PLAYING" /\ game.pc = "enter"

\* PlayingState.enter from the player on: a new Player at the spawn point, six
\* more enemies appended to self.enemies, the items and the HUD.
EnterSpawns ==
  /\ Entering
  /\ world.pc = "idle" /\ world.world_initialized
  /\ op' = Call("PlayingState.enter", "", 0, 0, 0, 0, 0, "")
  /\ game' = [game EXCEPT !.pc = "playing",
                          !.player = NewPlayer(30 * 32, 10 * 32),
                          !.enemies = @ \o enemy_spawns]
  /\ UNCHANGED <<layers, collision_rects, hazard_rects, dirty, rebuilds, readSince,
                 saved, camera, world, editor, gen, nOps>>
  /\ GameFrame

Playing == game.current = "PLAYING" /\ game.pc = "playing"

\* PlayingState.update without the pause key: the camera follows the player,
\* the player moves by dx and loses `damage` health, and the enemies that died
\* (the first one when `kill`) are removed; a dead player ends the game.
PlayingUpdate(dx, damage, kill) ==
  LET tx == (game.player.x - camera.width \div 2) * Scale
      ty == (game.player.y - camera.height \div 2) * Scale
      moved == [game.player EXCEPT !.x = @ + dx, !.health = @ - damage]
  IN /\ Playing
     /\ op' = Call("PlayingState.update", "", dx, 0, 0, 0, damage, "")
     /\ camera' = [camera EXCEPT !.target_x = tx, !.target_y = ty,
                                 !.x = Follow(camera.x, tx, 0, camera.width),
                                 !.y = Follow(camera.y, ty, 0, camera.height)]
     /\ game' = [game EXCEPT
                   !.player = moved,
                   !.current = IF moved.health <= 0 THEN "GAME_OVER" ELSE @,
                   !.enemies = IF moved.health > 0 /\ kill /\ @ # <<>> THEN Tail(@) ELSE @,
                   !.resumed = FALSE]
     /\ ret' = <<>>
     /\ raised' = "none"
     /\ nOps' = nOps + 1
     /\ UNCHANGED <<layers, collision_rects, hazard_rects, dirty, rebuilds, readSince,
                    saved, world, editor, gen, frame>>
     /\ KeepSize /\ KeepDisk /\ KeepAutotiling

\* PlayingState.update, pause key: change_state(PAUSED) leaves the playing
\* state's player, enemies and world_manager in place.
PausePressed ==
  /\ Playing
  /\ op' = Call("PAUSE", "", 0, 0, 0, 0, 0, "")
  /\ game' = [game EXCEPT !.current = "PAUSED", !.at_pause = GameNow,
                          !.resumed = FALSE]
  /\ nOps' = nOps + 1
  /\ UNCHANGED <<layers, collision_rects, hazard_rects, dirty, rebuilds, readSince,
                 saved, camera, world, editor, gen>>
  /\ GameFrame

\* PauseState.update (pause key) and PauseState._handle_menu_selection
\* (RESUME): change_state(PLAYING).
Resume(how) ==
  /\ game.current = "PAUSED"
  /\ op' = Call(how, "", 0, 0, 0, 0, 0, "")
  /\ ChangeToPlaying(TRUE)

\* The map of PlayingState.enter.
PlayMap == <<MapWidth, MapHeight>>

InitGame ==
  /\ ConstructedAs(PlayMap[1], PlayMap[2])
  /\ door_types = SomeDoorTypes
  /\ file = NoFile
  /\ input_grid = <<>>
  /\ autotile_grid = <<>>
  /\ scan = NoScan
  /\ camera = <<>>
  /\ gen = <<>>
  /\ world = <<>>
  /\ editor = <<>>
  /\ frame = <<>>
  /\ game = NewGame

NextGame ==
  \/ MenuNewGame
  \/ Entering /\ InitializeWorld(TRUE)
  \/ Entering /\ InitializeGenerates
  \/ Entering /\ ApplyWallsOverFloor
  \/ Entering /\ AddTerminals
  \/ Entering /\ NeonAttempt
  \/ Entering /\ AddLasers
  \/ Entering /\ SpikeAttempt
  \/ Entering /\ AddDoors
  \/ Entering /\ InitializeFinishes
  \/ EnterSpawns
  \/ nOps < MaxOps /\ \E dx \in {0, 32}, kill \in BOOLEAN : PlayingUpdate(dx, 10, kill)
  \/ nOps < MaxOps /\ Playing /\ ClearMap
  \/ nOps < MaxOps /\ PausePressed
  \/ \E how \in {"PAUSE", "RESUME"} : Resume(how)

SpecGame == InitGame /\ [][NextGame]_vars

\* The game has been resumed: PlayingState.enter has just returned from a
\* change_state(PLAYING) made by the pause menu.
Resumed == Playing /\ game.resumed /\ op.name = "PlayingState.enter"

\* C29: pausing and then resuming continues the same game: the player, the
\* enemies and the world (tilemap contents, camera position) after the resume
\* are those that existed when the game was paused.
C29_ResumeContinues == Resumed => GameNow = game.at_pause

\* What the code does: the resumed game has a new player at the spawn point
\* with full health, a new world with its camera at the centre of the map, and
\* six enemies more than at the pause.
C29_ResumeRestarts ==
  Resumed =>
    /\ game.player = NewPlayer(30 * 32, 10 * 32)
    /\ game.enemies = game.at_pause.enemies \o enemy_spawns
    /\ camera.x = ((width * TILE_SIZE) \div 2) * Scale
    /\ world = [NewWorld EXCEPT !.world_initialized = TRUE]

\* A game paused after the player moved and killed an enemy has been resumed.
C29_ResumedAfterPlay ==
  /\ Resumed
  /\ game.at_pause.player.x # 30 * 32
  /\ Len(game.at_pause.enemies) = 5

\* ---------------------------------------------------- MapGenerator.clear_area
\* The cells the loops of clear_area(x, y, w, h) visit: range(y, min(y + h,
\* tilemap.height)) by range(x, min(x + w, tilemap.width)).
ClearCells(x, y, w, h) ==
  (x..(Min(x + w, width) - 1)) \X (y..(Min(y + h, height) - 1))

\* clear_area(x, y, w, h): the argument self.tilemap.Tile(TileType.EMPTY, 0, 0)
\* of the first set_tile is evaluated before the call, and a Tilemap has no
\* attribute Tile.
ClearArea(x, y, w, h) ==
  /\ op' = Call("clear_area", "", x, y, w, h, 0, "")
  /\ ret' = <<>>
  /\ raised' = (IF ClearCells(x, y, w, h) # {} THEN "AttributeError" ELSE "none")
  /\ UNCHANGED <<layers, nOps>>
  /\ KeepTilemap
  /\ KeepOthers

\* A map with cells on every side of a cleared area.
ClearMapSize == <<MapWidth + 2, MapHeight + 2>>

\* Areas inside, across and outside the map, and empty ones.
ClearArgs ==
  {<<x, y, w, h>> : x \in {-1, 0, 1, ClearMapSize[1]}, y \in {-1, 0, ClearMapSize[2]},
                     w \in {0, 1, 2}, h \in {1, 3}}

InitClear ==
  /\ ConstructedAs(ClearMapSize[1], ClearMapSize[2])
  /\ door_types = NoDoorTypes
  /\ file = NoFile
  /\ input_grid = <<>>
  /\ autotile_grid = <<>>
  /\ scan = NoScan
  /\ camera = <<>>
  /\ gen = IdleGenerator
  /\ NoRest

NextClear ==
  \/ \E a \in ClearArgs : ClearArea(a[1], a[2], a[3], a[4])
  \/ WriteTileById(TileLayer, {0, 1}, {0, 1}, {WALL_BASIC, SPIKE_TRAP}) /\ KeepOthers

SpecClear == InitClear /\ [][NextClear]_vars

\* C30: clear_area(x, y, w, h) completes without error and resets every
\* in-bounds cell of the area, in all three layers, to an EMPTY, non-solid,
\* non-hazard tile, leaving every cell outside the area unchanged.
C30_ClearAreaResets ==
  [][op'.name = "clear_area" =>
       /\ raised' = "none"
       /\ \A l \in TileLayer, cy \in 0..(height - 1), cx \in 0..(width - 1) :
            IF /\ op'.x <= cx /\ cx < op'.x + op'.w
               /\ op'.y <= cy /\ cy < op'.y + op'.h
              THEN /\ layers'[l][cy + 1][cx + 1].tile_id = EMPTY
                   /\ ~layers'[l][cy + 1][cx + 1].solid
                   /\ ~layers'[l][cy + 1][cx + 1].hazard
              ELSE layers'[l][cy + 1][cx + 1] = layers[l][cy + 1][cx + 1]]_vars

\* What the code does: a call whose loops reach a cell raises AttributeError;
\* only a call that visits no cell completes.
C30_ClearAreaRaises ==
  op.name = "clear_area" =>
    (raised = "AttributeError") = (ClearCells(op.x, op.y, op.w, op.h) # {})

\* clear_area(0, 0, 1, 1) has raised on a map whose cell (0, 0) holds a wall.
C30_RaisedInsideMap ==
  /\ op = Call("clear_area", "", 0, 0, 1, 1, 0, "")
  /\ raised = "AttributeError"
  /\ layers[SOLID][1][1].tile_id = WALL_BASIC

====
